---- MODULE Spec2Model ----
(***************************************************************************)
(* Routing core of the chat assistant: alias resolution, route pattern     *)
(* matching, cross-context route policy (src/routing/cross-context-        *)
(* routes.ts) and the config-driven forwarding router (src/routing/        *)
(* message-routes.ts).                                                     *)
(*                                                                         *)
(* Strings are sequences of one-character strings, so that trim,           *)
(* toLowerCase, indexOf and slice are computed and not assumed.            *)
(***************************************************************************)
EXTENDS Integers, Sequences, FiniteSets, TLC

VARIABLES
    cfg,        \* the configuration snapshot (chatAliases, crossContextRoutes, messageRoutes)
    call,       \* the last direct call of resolveChatAlias / matchesChannelPattern and its result
    req,        \* parameters of the evaluateCrossContextRoutePolicy call in progress
    pc,         \* position of evaluateCrossContextRoutePolicy: "idle", "scan", "done"
    idx,        \* index of the allow entry the for-loop is at
    result,     \* value returned by evaluateCrossContextRoutePolicy
    ctx,        \* MessageRouteContext of the runMessageRoutes call in progress
    rpc,        \* position of runMessageRoutes: "idle", "map", "await", "returned", "raised"
    ridx,       \* index of the rule routes.map is at
    attempted,  \* the counter `attempted`
    cb,         \* per rule, the promise of its async callback
    sends,      \* per rule, the runMessageAction call it made
    outbound,   \* per rule, the params handed to runMessageAction
    returned,   \* value runMessageRoutes resolved with
    targs,      \* arguments and options of the agent tool call in progress
    tpc,        \* position of the tool's execute: "idle", "await", "send", "returned", "raised"
    tdec,       \* per target chat, what evaluateCrossContextRoutePolicy returned
    tsend,      \* per target chat, the runMessageAction call made for it
    tread,      \* per source chat, the transcript read made for it
    tres,       \* the result the tool returned
    store,      \* the session store the history tools load
    chatsFile,  \* content of CHATS.md in the workspace, empty when it does not exist
    chatsCalls, \* the updateChatRegistry calls made so far, with whether each wrote
    memoryFile, \* content of MEMORY.md in the workspace, empty when it does not exist
    memoryRead, \* the content the latest updateMemorySection call read
    memoryCalls \* the updateMemorySection calls made so far, with whether each wrote

policyVars == <<req, pc, idx, result>>
routerVars == <<ctx, rpc, ridx, attempted, cb, sends, outbound, returned>>
toolVars == <<targs, tpc, tdec, tsend, tread, tres, store>>
fileVars == <<chatsFile, chatsCalls, memoryFile, memoryRead, memoryCalls>>
vars == <<cfg, call, policyVars, routerVars, toolVars, fileVars>>

\* no tool call has been made
NoArgs == [tool |-> "none"]
NoResult == [ok |-> FALSE, error |-> "none"]
ToolsIdle ==
    /\ targs = NoArgs
    /\ tpc = "idle"
    /\ tdec = <<>>
    /\ tsend = <<>>
    /\ tread = <<>>
    /\ tres = NoResult
    /\ store = <<>>

\* no workspace file has been touched
FilesIdle ==
    /\ chatsFile = <<>>
    /\ chatsCalls = <<>>
    /\ memoryFile = <<>>
    /\ memoryRead = <<>>
    /\ memoryCalls = <<>>

(***************************************************************************)
(* Bounds of the model                                                     *)
(***************************************************************************)
\* longest run of blanks put around an input string
MaxPad == 1
\* longest allow list of a crossContextRoutes block
MaxAllow == 2
\* longest messageRoutes list
MaxRoutes == 2
\* source chats of one digest_chat call in the inputs (besides the list that
\* exceeds MAX_SOURCES)
MaxSources == 2
\* target chats of one broadcast_to_chats call in the inputs (besides the
\* lists of MAX_TARGETS and MAX_TARGETS + 1 targets)
MaxTargets == 2

(***************************************************************************)
(* JavaScript string primitives                                            *)
(***************************************************************************)
UpperLetters == <<"A","B","C","D","E","F","G","H","I","J","K","L","M",
                  "N","O","P","Q","R","S","T","U","V","W","X","Y","Z">>
LowerLetters == <<"a","b","c","d","e","f","g","h","i","j","k","l","m",
                  "n","o","p","q","r","s","t","u","v","w","x","y","z">>

LowerChar(c) ==
    IF \E i \in 1..Len(UpperLetters) : UpperLetters[i] = c
    THEN LowerLetters[CHOOSE i \in 1..Len(UpperLetters) : UpperLetters[i] = c]
    ELSE c

\* String.prototype.toLowerCase
toLowerCase(s) == [i \in 1..Len(s) |-> LowerChar(s[i])]

IsWhite(c) == c \in {" ", "\t", "\n", "\r"}

\* String.prototype.trim
trim(s) ==
    LET keep == {i \in 1..Len(s) : ~IsWhite(s[i])}
    IN  IF keep = {} THEN <<>>
        ELSE LET lo == CHOOSE i \in keep : \A j \in keep : i <= j
                 hi == CHOOSE i \in keep : \A j \in keep : j <= i
             IN  SubSeq(s, lo, hi)

\* String.prototype.indexOf for a one-character needle: 0-based, -1 when absent
indexOf(s, c) ==
    LET hits == {i \in 1..Len(s) : s[i] = c}
    IN  IF hits = {} THEN -1
        ELSE (CHOOSE i \in hits : \A j \in hits : i <= j) - 1

\* String.prototype.slice(a, b) and slice(a), for 0 <= a <= b
slice(s, a, b) == SubSeq(s, a + 1, b)
sliceFrom(s, a) == SubSeq(s, a + 1, Len(s))

(***************************************************************************)
(* cross-context-routes.ts                                                 *)
(***************************************************************************)
\* cfg.chatAliases: an optional Record<string, string>
NoAliases == [present |-> FALSE, table |-> <<>>]
Aliases(t) == [present |-> TRUE, table |-> t]

resolveChatAliasTwice(c, aliasOrId) ==
    LET aliases == c.chatAliases
        once == IF aliasOrId \in DOMAIN aliases.table
                THEN aliases.table[aliasOrId] ELSE aliasOrId
    IN  IF ~aliases.present \/ aliasOrId = <<>>
        THEN aliasOrId
        ELSE IF once \in DOMAIN aliases.table THEN aliases.table[once] ELSE once

resolveChatAlias(c, aliasOrId) ==
    LET aliases == c.chatAliases
    IN  IF ~aliases.present \/ aliasOrId = <<>>
        THEN aliasOrId
        ELSE IF aliasOrId \in DOMAIN aliases.table
             THEN aliases.table[aliasOrId]
             ELSE aliasOrId

matchesChannelPatternRawChannel(pattern, channel, chatId, c) ==
    LET p == toLowerCase(trim(pattern))
        colonIdx == indexOf(p, ":")
        patternChannel == slice(p, 0, colonIdx)
        patternChatId == sliceFrom(p, colonIdx + 1)
    IN  IF colonIdx = -1
        THEN p = trim(channel)
        ELSE IF patternChannel # trim(channel)
        THEN FALSE
        ELSE IF patternChatId = <<>> \/ patternChatId = <<"*">>
        THEN TRUE
        ELSE toLowerCase(resolveChatAlias(c, patternChatId)) = toLowerCase(trim(chatId))

matchesChannelPattern(pattern, channel, chatId, c) ==
    LET p == toLowerCase(trim(pattern))
        colonIdx == indexOf(p, ":")
        patternChannel == slice(p, 0, colonIdx)
        patternChatId == sliceFrom(p, colonIdx + 1)
    IN  IF colonIdx = -1
        THEN p = toLowerCase(trim(channel))
        ELSE IF patternChannel # toLowerCase(trim(channel))
        THEN FALSE
        ELSE IF patternChatId = <<>> \/ patternChatId = <<"*">>
        THEN TRUE
        ELSE toLowerCase(resolveChatAlias(c, patternChatId)) = toLowerCase(trim(chatId))

\* routes.allow when Array.isArray(routes.allow), else []
allowListOf(routes) == IF routes.hasAllow THEN routes.allow ELSE <<>>

defaultActionOfAllow(routes) == IF routes.default = "unset" THEN "allow" ELSE routes.default

\* routes.default ?? "deny"
defaultActionOf(routes) == IF routes.default = "unset" THEN "deny" ELSE routes.default

chatIdsAdmitAnyCase(entry, toChatId) ==
    IF entry.hasChatIds /\ Len(entry.chatIds) > 0
    THEN \E k \in 1..Len(entry.chatIds) :
            toLowerCase(trim(entry.chatIds[k])) = toLowerCase(trim(toChatId))
    ELSE TRUE

\* entry.chatIds restriction: passes when chatIds is absent or empty, or when
\* some trimmed element equals the trimmed target
chatIdsAdmit(entry, toChatId) ==
    IF entry.hasChatIds /\ Len(entry.chatIds) > 0
    THEN \E k \in 1..Len(entry.chatIds) : trim(entry.chatIds[k]) = trim(toChatId)
    ELSE TRUE

\* the three tests of one iteration of the for-loop
entryMatches(entry, r, c) ==
    /\ matchesChannelPattern(entry.from, r.fromChannel, r.fromChatId, c)
    /\ matchesChannelPattern(entry.to, r.toChannel, r.toChatId, c)
    /\ chatIdsAdmit(entry, r.toChatId)

\* the values evaluateCrossContextRoutePolicy returns
NotReturned == [kind |-> "none", allowed |-> FALSE,
                reason |-> [head |-> "", from |-> <<>>, to |-> <<>>]]
Undefined == [kind |-> "undefined", allowed |-> FALSE,
              reason |-> [head |-> "", from |-> <<>>, to |-> <<>>]]
AllowByRule(entry) ==
    [kind |-> "decision", allowed |-> TRUE,
     reason |-> [head |-> "crossContextRoutes allow", from |-> entry.from, to |-> entry.to]]
AllowByDefault ==
    [kind |-> "decision", allowed |-> TRUE,
     reason |-> [head |-> "crossContextRoutes default=allow", from |-> <<>>, to |-> <<>>]]
DenyByDefault(r) ==
    [kind |-> "decision", allowed |-> FALSE,
     reason |-> [head |-> "crossContextRoutes default=deny, no allow rule matched",
                 from |-> r.fromChannel \o <<":">> \o r.fromChatId,
                 to |-> r.toChannel \o <<":">> \o r.toChatId]]

\* the TypeError thrown on a null entry
Raised == [kind |-> "raised", allowed |-> FALSE,
           reason |-> [head |-> "TypeError", from |-> <<>>, to |-> <<>>]]

\* the for-loop from entry i on, and the default action after it
RECURSIVE scanFrom(_, _, _, _)
scanFrom(allowList, i, r, c) ==
    IF i > Len(allowList)
    THEN IF defaultActionOf(c.crossContextRoutes) = "allow"
         THEN AllowByDefault
         ELSE DenyByDefault(r)
    ELSE IF allowList[i].isNull
    THEN Raised
    ELSE IF entryMatches(allowList[i], r, c)
    THEN AllowByRule(allowList[i])
    ELSE scanFrom(allowList, i + 1, r, c)

\* the function as one call, for the tools that call it
evaluateCrossContextRoutePolicy(r, c) ==
    IF ~c.crossContextRoutes.present
    THEN Undefined
    ELSE scanFrom(allowListOf(c.crossContextRoutes), 1, r, c)

(***************************************************************************)
(* message-routes.ts                                                       *)
(***************************************************************************)
telegram == <<"t", "e", "l", "e", "g", "r", "a", "m">>

\* String.prototype.includes
includes(s, needle) ==
    \E i \in 1..(Len(s) + 1) :
        /\ i + Len(needle) - 1 <= Len(s)
        /\ SubSeq(s, i, i + Len(needle) - 1) = needle

\* the grave accent, which a TLA+ string cannot hold
Grave == "grave"

\* the replacement text of one match (GetSubstitution): $$ is a dollar sign,
\* $& the match, $ with a grave accent the text before the match, $' the
\* text after it
RECURSIVE getSubstitution(_, _, _, _, _)
getSubstitution(matched, str, position, replacement, k) ==
    IF k > Len(replacement) THEN <<>>
    ELSE IF replacement[k] = "$" /\ k < Len(replacement)
                /\ replacement[k + 1] \in {"$", "&", Grave, "'"}
    THEN (CASE replacement[k + 1] = "$" -> <<"$">>
            [] replacement[k + 1] = "&" -> matched
            [] replacement[k + 1] = Grave -> SubSeq(str, 1, position - 1)
            [] OTHER -> SubSeq(str, position + Len(matched), Len(str)))
         \o getSubstitution(matched, str, position, replacement, k + 2)
    ELSE <<replacement[k]>> \o getSubstitution(matched, str, position, replacement, k + 1)

\* String.prototype.replaceAll with a non-empty string pattern: every
\* occurrence, left to right, without overlap
RECURSIVE replaceFrom(_, _, _, _)
replaceFrom(str, searchValue, replacement, position) ==
    IF position + Len(searchValue) - 1 > Len(str)
    THEN SubSeq(str, position, Len(str))
    ELSE IF SubSeq(str, position, position + Len(searchValue) - 1) = searchValue
    THEN getSubstitution(searchValue, str, position, replacement, 1)
         \o replaceFrom(str, searchValue, replacement, position + Len(searchValue))
    ELSE <<str[position]>> \o replaceFrom(str, searchValue, replacement, position + 1)

replaceAll(str, searchValue, replacement) == replaceFrom(str, searchValue, replacement, 1)

matchesFromPattern(from, c) ==
    LET colonIdx == indexOf(from, ":")
        patternChannel == toLowerCase(slice(from, 0, colonIdx))
        patternChatId == toLowerCase(sliceFrom(from, colonIdx + 1))
    IN  IF from = <<"*">>
        THEN TRUE
        ELSE IF colonIdx = -1
        THEN toLowerCase(from) = toLowerCase(c.channel)
        ELSE IF patternChannel # toLowerCase(c.channel)
        THEN FALSE
        ELSE IF patternChatId = <<"*">> \/ patternChatId = <<>>
        THEN TRUE
        ELSE patternChatId = toLowerCase(c.chatId)

passesFilterIgnoresKeywords(filter, c) ==
    IF ~filter.present
    THEN TRUE
    ELSE IF Len(filter.senders) > 0
            /\ ~\E k \in 1..Len(filter.senders) : filter.senders[k] = c.senderId
    THEN FALSE
    ELSE TRUE

\* an absent senders / keywords list and an empty one are the same to the code
passesFilter(filter, c) ==
    IF ~filter.present
    THEN TRUE
    ELSE IF Len(filter.senders) > 0
            /\ ~\E k \in 1..Len(filter.senders) : filter.senders[k] = c.senderId
    THEN FALSE
    ELSE IF Len(filter.keywords) > 0
            /\ LET body == toLowerCase(IF c.hasText THEN c.text ELSE <<>>)
               IN  ~\E k \in 1..Len(filter.keywords) :
                       includes(body, toLowerCase(filter.keywords[k]))
    THEN FALSE
    ELSE TRUE

\* an absent name and an empty one are the same to filter(Boolean)
senderNameOf(c) ==
    LET joined == IF c.senderFirstName # <<>> /\ c.senderLastName # <<>>
                  THEN c.senderFirstName \o <<" ">> \o c.senderLastName
                  ELSE c.senderFirstName \o c.senderLastName
    IN  IF joined # <<>> THEN joined ELSE c.senderId

applyTemplate(template, c) ==
    LET senderName == senderNameOf(c)
        username == IF c.senderUsername # <<>> THEN <<"@">> \o c.senderUsername ELSE <<>>
    IN  replaceAll(replaceAll(replaceAll(replaceAll(template,
            <<"{", "c", "h", "a", "t", "T", "i", "t", "l", "e", "}">>, c.chatTitle),
            <<"{", "c", "h", "a", "t", "I", "d", "}">>, c.chatId),
            <<"{", "s", "e", "n", "d", "e", "r", "}">>, senderName),
            <<"{", "u", "s", "e", "r", "n", "a", "m", "e", "}">>, username)

buildForwardedTextNoTrim(originalText, transform, c) ==
    LET text0 == IF originalText.has THEN originalText.text ELSE <<>>
        text1 == IF transform.prefix # <<>>
                 THEN applyTemplate(transform.prefix, c) \o text0 ELSE text0
        text2 == IF transform.suffix # <<>>
                 THEN text1 \o applyTemplate(transform.suffix, c) ELSE text1
    IN  text2

\* the trimmed text, or the empty string for `undefined` (both are falsy)
buildForwardedText(originalText, transform, c) ==
    LET text0 == IF originalText.has THEN originalText.text ELSE <<>>
        text1 == IF transform.prefix # <<>>
                 THEN applyTemplate(transform.prefix, c) \o text0 ELSE text0
        text2 == IF transform.suffix # <<>>
                 THEN text1 \o applyTemplate(transform.suffix, c) ELSE text1
    IN  trim(text2)

\* rule.channel ?? "telegram"
ruleChannelOf(rule) == IF rule.hasChannel THEN rule.channel ELSE telegram

ruleOutcomeRawTarget(rule, c, config) ==
    IF rule.isNull
    THEN "rejected"
    ELSE IF rule.enabledFalse
    THEN "skipped"
    ELSE IF toLowerCase(ruleChannelOf(rule)) # toLowerCase(c.channel)
    THEN "skipped"
    ELSE IF ~matchesFromPattern(rule.from, c)
    THEN "skipped"
    ELSE IF ~passesFilter(rule.filter, c)
    THEN "skipped"
    ELSE IF rule.to = c.chatId
    THEN "skipped"
    ELSE IF buildForwardedText([has |-> c.hasText, text |-> c.text], rule.transform, c) = <<>>
    THEN "skipped"
    ELSE "send"

\* what the async callback of routes.map does with one rule, up to its await:
\* "rejected" (it threw), "skipped" (it returned early) or "send"
ruleOutcome(rule, c, config) ==
    IF rule.isNull
    THEN "rejected"
    ELSE IF rule.enabledFalse
    THEN "skipped"
    ELSE IF toLowerCase(ruleChannelOf(rule)) # toLowerCase(c.channel)
    THEN "skipped"
    ELSE IF ~matchesFromPattern(rule.from, c)
    THEN "skipped"
    ELSE IF ~passesFilter(rule.filter, c)
    THEN "skipped"
    ELSE IF resolveChatAlias(config, rule.to) = c.chatId
    THEN "skipped"
    ELSE IF buildForwardedText([has |-> c.hasText, text |-> c.text], rule.transform, c) = <<>>
    THEN "skipped"
    ELSE "send"

outboundParamsContextChannel(rule, c, config) ==
    [channel |-> c.channel,
     target |-> resolveChatAlias(config, rule.to),
     message |-> buildForwardedText([has |-> c.hasText, text |-> c.text], rule.transform, c)]

outboundParams(rule, c, config) ==
    [channel |-> ruleChannelOf(rule),
     target |-> resolveChatAlias(config, rule.to),
     message |-> buildForwardedText([has |-> c.hasText, text |-> c.text], rule.transform, c)]

\* the argument of runMessageAction: the action, the outbound parameters and
\* the gateway options with their timeout; no abortSignal is among its fields
runMessageActionInput(rule, c, config) ==
    LET params == outboundParams(rule, c, config)
    IN  [action |-> "send", channel |-> params.channel, target |-> params.target,
         message |-> params.message, gatewayTimeout |-> TRUE, abortSignal |-> "undefined"]

NoParams == [action |-> "none", channel |-> <<>>, target |-> <<>>, message |-> <<>>,
             gatewayTimeout |-> FALSE, abortSignal |-> "undefined"]
NoMessageRoutes == [present |-> FALSE, rules |-> <<>>]
NoCtx == [hasText |-> FALSE, text |-> <<>>, chatId |-> <<>>, chatTitle |-> <<>>,
          senderId |-> <<>>, senderFirstName |-> <<>>, senderLastName |-> <<>>,
          senderUsername |-> <<>>, channel |-> <<>>]

(***************************************************************************)
(* Inputs                                                                  *)
(***************************************************************************)
Pad(n) == [i \in 1..n |-> " "]
Pads == {Pad(n) : n \in 0..MaxPad}

\* channel names, chat ids and alias names used as inputs
tg == <<"t","g">>
TG == <<"T","G">>
dc == <<"d","c">>
dv == <<"d","v">>
Dv == <<"D","v">>

\* chat alias tables: absent, empty, one lower-case key, one mixed-case key,
\* a chain (dv -> Dv -> 2) and a mixed-case value
AliasTables ==
    { NoAliases,
      Aliases(<<>>),
      Aliases(dv :> <<"2">>),
      Aliases(Dv :> <<"2">>),
      Aliases((dv :> Dv) @@ (Dv :> <<"2">>)),
      Aliases(dv :> <<"A">>) }

NoRoutes == [present |-> FALSE, hasAllow |-> FALSE, allow |-> <<>>, default |-> "unset"]

\* route patterns: blanks, a channel part, an optional colon and selector, blanks
PatternChannels == {tg, TG, dc, tg \o <<" ">>}
WildSuffixes == {<<>>, <<":">>, <<":","*">>}
Selectors == {<<"2">>, dv, Dv, <<"a">>, <<"A">>, <<"*","2">>}
PatternInputs ==
    {l \o ch \o sfx \o r : l \in Pads, r \in Pads, ch \in PatternChannels, sfx \in WildSuffixes}
    \cup {l \o ch \o <<":">> \o sel \o r :
             l \in Pads, r \in Pads, ch \in PatternChannels, sel \in Selectors}
ChannelInputs == {l \o ch \o l : l \in Pads, ch \in {tg, TG, dc}}
ChatIdInputs == {l \o id \o l : l \in Pads, id \in {<<"2">>, <<"3">>, <<"a">>, <<"A">>, dv}}
AliasInputs == {<<>>, dv, Dv, <<"2">>, <<"A">>}

NoCall == [fn |-> "none", pattern |-> <<>>, channel |-> <<>>, chatId |-> <<>>,
           bres |-> FALSE, sres |-> <<>>]
NoReq == [fromChannel |-> <<>>, fromChatId |-> <<>>, toChannel |-> <<>>, toChatId |-> <<>>]

\* allow rules of the policy block: from pattern, to pattern, optional chatIds
PolicyRule(f, t, h) ==
    [isNull |-> FALSE, from |-> f, to |-> t, hasChatIds |-> h,
     chatIds |-> IF h THEN <<dv, <<" ","3"," ">>>> ELSE <<>>]
\* a null element of the allow array
NullEntry == [PolicyRule(<<>>, <<>>, FALSE) EXCEPT !.isNull = TRUE]
WellFormedRules ==
    { PolicyRule(tg, tg \o <<":","*">>, FALSE),
      PolicyRule(tg, tg \o <<":","*">>, TRUE),
      PolicyRule(tg \o <<":","1">>, tg \o <<":">> \o dv, FALSE),
      PolicyRule(tg \o <<":","1">>, tg \o <<":">> \o dv, TRUE),
      PolicyRule(tg, tg \o <<":">> \o dv, TRUE),
      PolicyRule(tg \o <<":","1">>, tg \o <<":","*">>, FALSE) }
PolicyRules == WellFormedRules \cup {NullEntry}
AllowLists == UNION {[1..n -> PolicyRules] : n \in 0..MaxAllow}
RoutesBlocks ==
    {NoRoutes}
    \cup {[present |-> TRUE, hasAllow |-> FALSE, allow |-> <<>>, default |-> d] :
             d \in {"unset", "allow", "deny"}}
    \cup {[present |-> TRUE, hasAllow |-> TRUE, allow |-> al, default |-> d] :
             al \in AllowLists, d \in {"unset", "allow", "deny"}}
PolicyAliasTables == {NoAliases, Aliases(dv :> <<"2">>)}
Requests ==
    {[fromChannel |-> fc, fromChatId |-> fi, toChannel |-> tc, toChatId |-> ti] :
        fc \in {TG}, fi \in {<<"1">>, <<"9">>}, tc \in {tg, dc},
        ti \in {<<"2">>, <<"3">>, <<" ","3">>, dv, <<"D","V">>}}

(***************************************************************************)
(* Direct calls of the two pure functions                                  *)
(***************************************************************************)
ResolveCall ==
    /\ call.fn = "none"
    /\ \E name \in AliasInputs :
          call' = [fn |-> "resolve", pattern |-> name, channel |-> <<>>, chatId |-> <<>>,
                   bres |-> FALSE, sres |-> resolveChatAlias(cfg, name)]
    /\ UNCHANGED <<fileVars, toolVars, cfg, policyVars, routerVars>>

MatchCall ==
    /\ call.fn = "none"
    /\ \E pattern \in PatternInputs, channel \in ChannelInputs, chatId \in ChatIdInputs :
          call' = [fn |-> "match", pattern |-> pattern, channel |-> channel,
                   chatId |-> chatId,
                   bres |-> matchesChannelPattern(pattern, channel, chatId, cfg),
                   sres |-> <<>>]
    /\ UNCHANGED <<fileVars, toolVars, cfg, policyVars, routerVars>>

InitMatcher ==
    /\ cfg \in {[chatAliases |-> a, crossContextRoutes |-> NoRoutes,
                 messageRoutes |-> NoMessageRoutes] : a \in AliasTables}
    /\ call = NoCall
    /\ req = NoReq
    /\ pc = "idle"
    /\ idx = 0
    /\ result = NotReturned
    /\ ctx = NoCtx
    /\ rpc = "idle"
    /\ ridx = 0
    /\ attempted = 0
    /\ cb = <<>>
    /\ sends = <<>>
    /\ outbound = <<>>
    /\ returned = 0
    /\ ToolsIdle
    /\ FilesIdle

NextMatcher == ResolveCall \/ MatchCall

SpecMatcher == InitMatcher /\ [][NextMatcher]_vars

(***************************************************************************)
(* evaluateCrossContextRoutePolicy, one step per loop iteration            *)
(***************************************************************************)
EvaluateAbsentAsEmpty ==
    /\ pc = "idle"
    /\ \E r \in Requests : req' = r
    /\ pc' = "scan"
    /\ idx' = 1
    /\ result' = NotReturned
    /\ UNCHANGED <<fileVars, toolVars, cfg, call, routerVars>>

\* entry of the function: the no-config early return, else the loop starts
Evaluate ==
    /\ pc = "idle"
    /\ \E r \in Requests : req' = r
    /\ IF ~cfg.crossContextRoutes.present
       THEN /\ result' = Undefined
            /\ pc' = "done"
            /\ idx' = 0
       ELSE /\ result' = NotReturned
            /\ pc' = "scan"
            /\ idx' = 1
    /\ UNCHANGED <<fileVars, toolVars, cfg, call, routerVars>>

ScanEntryReversed ==
    LET allowList == allowListOf(cfg.crossContextRoutes)
        at == Len(allowList) - idx + 1
    IN  /\ pc = "scan"
        /\ idx <= Len(allowList)
        /\ IF entryMatches(allowList[at], req, cfg)
           THEN /\ result' = AllowByRule(allowList[at])
                /\ pc' = "done"
                /\ idx' = idx
           ELSE /\ idx' = idx + 1
                /\ UNCHANGED <<result, pc>>
        /\ UNCHANGED <<fileVars, toolVars, cfg, call, req, routerVars>>

\* one iteration of `for (const entry of allowList)`; reading entry.from of a
\* null entry throws a TypeError out of the function
ScanEntry ==
    LET allowList == allowListOf(cfg.crossContextRoutes)
    IN  /\ pc = "scan"
        /\ idx <= Len(allowList)
        /\ IF allowList[idx].isNull
           THEN /\ pc' = "raised"
                /\ UNCHANGED <<result, idx>>
           ELSE IF entryMatches(allowList[idx], req, cfg)
           THEN /\ result' = AllowByRule(allowList[idx])
                /\ pc' = "done"
                /\ idx' = idx
           ELSE /\ idx' = idx + 1
                /\ UNCHANGED <<result, pc>>
        /\ UNCHANGED <<fileVars, toolVars, cfg, call, req, routerVars>>

\* the loop ended without a return: the default action applies
ApplyDefault ==
    /\ pc = "scan"
    /\ idx > Len(allowListOf(cfg.crossContextRoutes))
    /\ result' = IF defaultActionOf(cfg.crossContextRoutes) = "allow"
                 THEN AllowByDefault
                 ELSE DenyByDefault(req)
    /\ pc' = "done"
    /\ UNCHANGED <<fileVars, toolVars, cfg, call, req, idx, routerVars>>

InitPolicy ==
    /\ cfg \in {[chatAliases |-> a, crossContextRoutes |-> rb,
                 messageRoutes |-> NoMessageRoutes] :
                   a \in PolicyAliasTables, rb \in RoutesBlocks}
    /\ call = NoCall
    /\ req = NoReq
    /\ pc = "idle"
    /\ idx = 0
    /\ result = NotReturned
    /\ ctx = NoCtx
    /\ rpc = "idle"
    /\ ridx = 0
    /\ attempted = 0
    /\ cb = <<>>
    /\ sends = <<>>
    /\ outbound = <<>>
    /\ returned = 0
    /\ ToolsIdle
    /\ FilesIdle

NextPolicy == Evaluate \/ ScanEntry \/ ApplyDefault

SpecPolicy == InitPolicy /\ [][NextPolicy]_vars

(***************************************************************************)
(* runMessageRoutes                                                        *)
(***************************************************************************)
NoFilter == [present |-> FALSE, keywords |-> <<>>, senders |-> <<>>]
NoTransform == [prefix |-> <<>>, suffix |-> <<>>]
Rule(from, to) ==
    [isNull |-> FALSE, enabledFalse |-> FALSE, hasChannel |-> FALSE, channel |-> <<>>,
     from |-> from, to |-> to, filter |-> NoFilter, transform |-> NoTransform]

u1 == <<"u","1">>
u2 == <<"u","2">>

\* messageRoutes entries: a null entry, a bare rule, a disabled rule, a rule of
\* another channel, a rule whose alias target is chat 1, a keyword rule, a
\* rule with a sender filter and a prefix template, and a rule whose only
\* keyword is the empty string and which appends a suffix
RouteRules ==
    { [Rule(<<>>, <<>>) EXCEPT !.isNull = TRUE],
      Rule(<<"*">>, <<"2">>),
      [Rule(<<"*">>, <<"2">>) EXCEPT !.enabledFalse = TRUE],
      [Rule(dc, <<"3">>) EXCEPT !.hasChannel = TRUE, !.channel = dc],
      Rule(<<"T", "e", "l", "e", "g", "r", "a", "m">>, dv),
      [Rule(<<"t", "e", "l", "e", "g", "r", "a", "m", ":", "*">>, <<"3">>) EXCEPT
          !.filter = [present |-> TRUE, keywords |-> <<<<"u", "r", "g", "e", "n", "t">>>>, senders |-> <<>>]],
      [Rule(<<"t", "e", "l", "e", "g", "r", "a", "m", ":", "1">>, <<"3">>) EXCEPT
          !.filter = [present |-> TRUE, keywords |-> <<>>, senders |-> <<u1>>],
          !.transform = [prefix |-> <<"{", "s", "e", "n", "d", "e", "r", "}", " ", "i", "n", " ", "{", "c", "h", "a", "t", "T", "i", "t", "l", "e", "}", ":", " ">>, suffix |-> <<>>]],
      [Rule(<<"*">>, <<"3">>) EXCEPT
          !.filter = [present |-> TRUE, keywords |-> << <<>> >>, senders |-> <<>>],
          !.transform = [prefix |-> <<>>, suffix |-> <<" ", ".">>]] }
RouteLists == UNION {[1..n -> RouteRules] : n \in 0..MaxRoutes}
MessageRoutesBlocks ==
    {NoMessageRoutes} \cup {[present |-> TRUE, rules |-> rl] : rl \in RouteLists}

\* an inbound context: sender u1 is Ann, sender u2 has only the handle bob
Context(t, id, sid, ch, title) ==
    [hasText |-> t.has, text |-> t.text, chatId |-> id, chatTitle |-> title,
     senderId |-> sid,
     senderFirstName |-> IF sid = u1 THEN <<"A", "n", "n">> ELSE <<>>,
     senderLastName |-> <<>>,
     senderUsername |-> IF sid = u2 THEN <<"b", "o", "b">> ELSE <<>>,
     channel |-> ch]

Ops == <<"O", "p", "s">>
hello == <<"h", "e", "l", "l", "o">>

\* chat titles that hold a dollar pair or the text of a token
OddTitles == {<<"$", "$">>, <<"{", "c", "h", "a", "t", "I", "d", "}">>}

\* inbound contexts of the chat Ops, hello messages of chats with odd titles,
\* and hello messages whose channel is written Telegram or is another one
Contexts ==
    {Context([has |-> TRUE, text |-> hello], <<"1">>, u1, telegram, title) : title \in OddTitles}
    \cup
    {Context([has |-> TRUE, text |-> hello], id, u1, ch, Ops) :
        id \in {<<"1">>, <<"2">>}, ch \in {<<"T", "e", "l", "e", "g", "r", "a", "m">>, dc}}
    \cup
    {Context(t, id, sid, telegram, Ops) :
        t \in {[has |-> FALSE, text |-> <<>>], [has |-> TRUE, text |-> <<" ">>],
               [has |-> TRUE, text |-> <<"U", "r", "g", "e", "n", "t", "!">>], [has |-> TRUE, text |-> hello]},
        id \in {<<"1">>, <<"2">>},
        sid \in {u1, u2}}

RuleCount == Len(cfg.messageRoutes.rules)

\* entry: no rules means 0 at once; else routes.map starts
RunMessageRoutes ==
    /\ rpc = "idle"
    /\ \E c \in Contexts : ctx' = c
    /\ IF ~cfg.messageRoutes.present \/ RuleCount = 0
       THEN /\ rpc' = "returned"
            /\ returned' = 0
            /\ UNCHANGED <<ridx, attempted, cb, sends, outbound>>
       ELSE /\ rpc' = "map"
            /\ ridx' = 1
            /\ attempted' = 0
            /\ cb' = [i \in 1..RuleCount |-> "notrun"]
            /\ sends' = [i \in 1..RuleCount |-> "none"]
            /\ outbound' = [i \in 1..RuleCount |-> NoParams]
            /\ UNCHANGED returned
    /\ UNCHANGED <<fileVars, toolVars, cfg, call, policyVars>>

MapRuleStopAfterSend ==
    LET rule == cfg.messageRoutes.rules[ridx]
        outcome == IF attempted > 0 THEN "skipped" ELSE ruleOutcome(rule, ctx, cfg)
    IN  /\ rpc = "map"
        /\ ridx <= RuleCount
        /\ IF outcome = "send"
           THEN /\ attempted' = attempted + 1
                /\ outbound' = [outbound EXCEPT ![ridx] = runMessageActionInput(rule, ctx, cfg)]
                /\ sends' = [sends EXCEPT ![ridx] = "inflight"]
                /\ cb' = [cb EXCEPT ![ridx] = "awaiting"]
           ELSE /\ cb' = [cb EXCEPT ![ridx] =
                            IF outcome = "rejected" THEN "rejected" ELSE "fulfilled"]
                /\ UNCHANGED <<attempted, outbound, sends>>
        /\ ridx' = ridx + 1
        /\ rpc' = IF ridx = RuleCount THEN "await" ELSE "map"
        /\ UNCHANGED <<fileVars, toolVars, cfg, call, policyVars, ctx, returned>>

\* routes.map runs the callback of rule ridx up to its first await: the rule
\* is skipped, throws, or is counted and handed to runMessageAction
MapRule ==
    LET rule == cfg.messageRoutes.rules[ridx]
        outcome == ruleOutcome(rule, ctx, cfg)
    IN  /\ rpc = "map"
        /\ ridx <= RuleCount
        /\ IF outcome = "send"
           THEN /\ attempted' = attempted + 1
                /\ outbound' = [outbound EXCEPT ![ridx] = runMessageActionInput(rule, ctx, cfg)]
                /\ sends' = [sends EXCEPT ![ridx] = "inflight"]
                /\ cb' = [cb EXCEPT ![ridx] = "awaiting"]
           ELSE /\ cb' = [cb EXCEPT ![ridx] =
                            IF outcome = "rejected" THEN "rejected" ELSE "fulfilled"]
                /\ UNCHANGED <<attempted, outbound, sends>>
        /\ ridx' = ridx + 1
        /\ rpc' = IF ridx = RuleCount THEN "await" ELSE "map"
        /\ UNCHANGED <<fileVars, toolVars, cfg, call, policyVars, ctx, returned>>

\* runMessageAction of rule i resolves; the callback's promise fulfils
SendSucceeds(i) ==
    /\ rpc = "await"
    /\ sends[i] = "inflight"
    /\ sends' = [sends EXCEPT ![i] = "ok"]
    /\ cb' = [cb EXCEPT ![i] = "fulfilled"]
    /\ UNCHANGED <<fileVars, toolVars, cfg, call, policyVars, ctx, rpc, ridx, attempted, outbound, returned>>

SendFailsUncaught(i) ==
    /\ rpc = "await"
    /\ sends[i] = "inflight"
    /\ sends' = [sends EXCEPT ![i] = "failed"]
    /\ cb' = [cb EXCEPT ![i] = "rejected"]
    /\ rpc' = "raised"
    /\ UNCHANGED <<fileVars, toolVars, cfg, call, policyVars, ctx, ridx, attempted, outbound, returned>>

\* runMessageAction of rule i rejects; .catch swallows it, the callback's
\* promise fulfils
SendFails(i) ==
    /\ rpc = "await"
    /\ sends[i] = "inflight"
    /\ sends' = [sends EXCEPT ![i] = "failed"]
    /\ cb' = [cb EXCEPT ![i] = "fulfilled"]
    /\ UNCHANGED <<fileVars, toolVars, cfg, call, policyVars, ctx, rpc, ridx, attempted, outbound, returned>>

AllSettledNoWait ==
    /\ rpc = "await"
    /\ rpc' = "returned"
    /\ returned' = attempted
    /\ UNCHANGED <<fileVars, toolVars, cfg, call, policyVars, ctx, ridx, attempted, cb, sends, outbound>>

\* Promise.allSettled resolves once every callback promise has settled, and
\* runMessageRoutes returns the counter
AllSettled ==
    /\ rpc = "await"
    /\ \A i \in 1..RuleCount : cb[i] \in {"fulfilled", "rejected"}
    /\ rpc' = "returned"
    /\ returned' = attempted
    /\ UNCHANGED <<fileVars, toolVars, cfg, call, policyVars, ctx, ridx, attempted, cb, sends, outbound>>

InitRouter ==
    /\ cfg \in {[chatAliases |-> Aliases(dv :> <<"1">>), crossContextRoutes |-> NoRoutes,
                 messageRoutes |-> mr] : mr \in MessageRoutesBlocks}
    /\ call = NoCall
    /\ req = NoReq
    /\ pc = "idle"
    /\ idx = 0
    /\ result = NotReturned
    /\ ctx = NoCtx
    /\ rpc = "idle"
    /\ ridx = 0
    /\ attempted = 0
    /\ cb = <<>>
    /\ sends = <<>>
    /\ outbound = <<>>
    /\ returned = 0
    /\ ToolsIdle
    /\ FilesIdle

NextRouter ==
    \/ RunMessageRoutes
    \/ MapRule
    \/ \E i \in 1..RuleCount : SendSucceeds(i)
    \/ \E i \in 1..RuleCount : SendFails(i)
    \/ AllSettled

SpecRouter == InitRouter /\ [][NextRouter]_vars

(***************************************************************************)
(* The agent tools: what they share                                        *)
(***************************************************************************)
\* the routing functions are not being called
RoutingIdle ==
    /\ call = NoCall
    /\ req = NoReq
    /\ pc = "idle"
    /\ idx = 0
    /\ result = NotReturned
    /\ ctx = NoCtx
    /\ rpc = "idle"
    /\ ridx = 0
    /\ attempted = 0
    /\ cb = <<>>
    /\ sends = <<>>
    /\ outbound = <<>>
    /\ returned = 0

\* allow entries of the tools' configurations
ToolRules ==
    { PolicyRule(tg \o <<":", "1">>, tg \o <<":">> \o dv, FALSE),
      PolicyRule(tg, tg \o <<":", "*">>, TRUE),
      NullEntry }
ToolAllowLists == UNION {[1..n -> ToolRules] : n \in 0..MaxAllow}
ToolRoutesBlocks ==
    {NoRoutes}
    \cup {[present |-> TRUE, hasAllow |-> TRUE, allow |-> al, default |-> d] :
             al \in ToolAllowLists, d \in {"unset", "allow"}}
ToolConfigs ==
    {[chatAliases |-> a, crossContextRoutes |-> rb, messageRoutes |-> NoMessageRoutes] :
        a \in PolicyAliasTables, rb \in ToolRoutesBlocks}

\* options.currentChannelProvider and options.currentChannelId of the tool
ToolOptions ==
    {[hasProvider |-> FALSE, provider |-> <<>>, hasCurrentId |-> FALSE, currentChannelId |-> <<>>],
     [hasProvider |-> TRUE, provider |-> TG, hasCurrentId |-> TRUE, currentChannelId |-> <<"1">>]}

\* the parameters of the policy call a tool makes for one chat; the provider
\* falls back to defaultChannel and the chat id to the empty string
policyParams(a, defaultChannel, chatId) ==
    [fromChannel |-> IF a.options.hasProvider THEN a.options.provider ELSE defaultChannel,
     fromChatId |-> IF a.options.hasCurrentId THEN a.options.currentChannelId ELSE <<>>,
     toChannel |-> a.channel,
     toChatId |-> chatId]

isBlockedNever(routeResult) == FALSE

\* routeResult !== undefined && !routeResult.allowed
isBlocked(routeResult) == routeResult.kind = "decision" /\ ~routeResult.allowed

(***************************************************************************)
(* send_to_chat                                                            *)
(***************************************************************************)
SendArgs ==
    {[tool |-> "send_to_chat", hasChannel |-> hc, channel |-> IF hc THEN tg ELSE <<>>,
      hasChatId |-> id # <<>>, chatId |-> id, hasText |-> ht, options |-> o] :
        hc \in BOOLEAN, id \in {<<>>, <<"2">>, <<"3">>, dv}, ht \in BOOLEAN, o \in ToolOptions}

\* execute up to its first await: the required parameters, the alias, the
\* policy check, and the call of runMessageAction
SendToChat ==
    /\ tpc = "idle"
    /\ \E a \in SendArgs :
          LET chatId == resolveChatAlias(cfg, a.chatId)
              routeResult == evaluateCrossContextRoutePolicy(policyParams(a, a.channel, chatId), cfg)
          IN  /\ targs' = a
              /\ IF ~a.hasChannel \/ ~a.hasChatId
                 THEN /\ tres' = [ok |-> FALSE, error |-> "send_to_chat: 'channel' and 'chatId' are required."]
                      /\ tpc' = "returned"
                      /\ UNCHANGED <<tdec, tsend>>
                 ELSE IF routeResult = Raised
                 THEN /\ tpc' = "raised"
                      /\ tdec' = <<routeResult>>
                      /\ tsend' = <<"none">>
                      /\ UNCHANGED tres
                 ELSE IF isBlocked(routeResult)
                 THEN /\ tres' = [ok |-> FALSE, error |-> "send_to_chat blocked",
                                  reason |-> routeResult.reason]
                      /\ tpc' = "returned"
                      /\ tdec' = <<routeResult>>
                      /\ tsend' = <<"none">>
                 ELSE /\ tpc' = "await"
                      /\ tdec' = <<routeResult>>
                      /\ tsend' = <<"inflight">>
                      /\ UNCHANGED tres
    /\ UNCHANGED <<fileVars, cfg, call, policyVars, routerVars, tread, store>>

\* runMessageAction resolves and its payload is the tool's result
SendToChatResolves ==
    /\ tpc = "await"
    /\ targs.tool = "send_to_chat"
    /\ tsend' = <<"ok">>
    /\ tres' = [ok |-> TRUE, error |-> "none"]
    /\ tpc' = "returned"
    /\ UNCHANGED <<fileVars, cfg, call, policyVars, routerVars, targs, tdec, tread, store>>

\* runMessageAction rejects; execute has no try around it
SendToChatRejects ==
    /\ tpc = "await"
    /\ targs.tool = "send_to_chat"
    /\ tsend' = <<"failed">>
    /\ tpc' = "raised"
    /\ UNCHANGED <<fileVars, cfg, call, policyVars, routerVars, targs, tdec, tread, tres, store>>

InitSend ==
    /\ cfg \in ToolConfigs
    /\ RoutingIdle
    /\ ToolsIdle
    /\ FilesIdle

NextSend == SendToChat \/ SendToChatResolves \/ SendToChatRejects

SpecSend == InitSend /\ [][NextSend]_vars

(***************************************************************************)
(* chat-history-reader.ts                                                  *)
(***************************************************************************)
\* a session of the store: its key, the chat it belongs to, its updatedAt,
\* whether resolveSessionFilePath finds its file, and its transcript
Session(key, chat, updatedAt, fileOk, n) ==
    [key |-> key, chat |-> chat, updatedAt |-> updatedAt, fileOk |-> fileOk,
     transcript |-> [i \in 1..n |-> [of |-> chat, no |-> i]]]

keyPrefix == <<"a", ":">> \o tg \o <<":">>
topicMark == <<":", "t", "o", "p", "i", "c", ":">>

\* one iteration of the for-loop of findSessionEntryForChat and the rest of
\* the loop; best is the index of the best entry so far, 0 for null
RECURSIVE bestFrom(_, _, _, _, _)
bestFrom(st, k, best, channel, needle) ==
    IF k > Len(st)
    THEN best
    ELSE IF ~includes(st[k].key, channel)
    THEN bestFrom(st, k + 1, best, channel, needle)
    ELSE IF ~includes(st[k].key, needle)
    THEN bestFrom(st, k + 1, best, channel, needle)
    ELSE IF includes(st[k].key, topicMark)
    THEN bestFrom(st, k + 1, best, channel, needle)
    ELSE IF best = 0 \/ st[k].updatedAt > st[best].updatedAt
    THEN bestFrom(st, k + 1, k, channel, needle)
    ELSE bestFrom(st, k + 1, best, channel, needle)

\* the index of the entry found, 0 for null
findSessionEntryForChat(st, channel, chatId) ==
    bestFrom(st, 1, 0, channel, <<":">> \o trim(chatId))

\* messages.slice(-limit)
readTranscriptMessages(transcript, limit) ==
    IF limit = 0
    THEN transcript
    ELSE IF limit > 0
    THEN SubSeq(transcript, IF Len(transcript) - limit + 1 > 1
                            THEN Len(transcript) - limit + 1 ELSE 1, Len(transcript))
    ELSE SubSeq(transcript, 1 - limit, Len(transcript))

\* the limits of read_chat_history (observe.ts)
DEFAULT_LIMIT == 50
MAX_LIMIT == 200

\* the session stores: chat 2 with a topic sub-session and chat 3 whose file
\* cannot be resolved; chat 2 and the more recent chat 23; chat 23 alone;
\* chat 2 with a transcript longer than every limit
Stores ==
    { << Session(keyPrefix \o <<"2">> \o topicMark \o <<"7">>, <<"2">>, 3, TRUE, 1),
         Session(keyPrefix \o <<"2">>, <<"2">>, 1, TRUE, 2),
         Session(keyPrefix \o <<"3">>, <<"3">>, 1, FALSE, 1) >>,
      << Session(keyPrefix \o <<"2">>, <<"2">>, 1, TRUE, 2),
         Session(keyPrefix \o <<"2", "3">>, <<"2", "3">>, 2, TRUE, 1) >>,
      << Session(keyPrefix \o <<"2", "3">>, <<"2", "3">>, 2, TRUE, 1) >>,
      << Session(keyPrefix \o <<"2">>, <<"2">>, 1, TRUE, MAX_LIMIT + 1) >> }

HistoryConfigs ==
    {[chatAliases |-> Aliases(dv :> <<"2">>), crossContextRoutes |-> rb,
      messageRoutes |-> NoMessageRoutes] : rb \in ToolRoutesBlocks}

NoLimit == [has |-> FALSE, value |-> 0]
Limits == {NoLimit} \cup {[has |-> TRUE, value |-> v] : v \in {-1, 0, 1, MAX_LIMIT + 1}}

\* Math.min(rawLimit ?? defaultLimit, maxLimit)
limitOf(rawLimit, defaultLimit, maxLimit) ==
    LET asked == IF rawLimit.has THEN rawLimit.value ELSE defaultLimit
    IN  IF asked < maxLimit THEN asked ELSE maxLimit

\* what one source chat of a history tool came to
NoRead == [state |-> "none", session |-> 0, messages |-> <<>>]

\* the synchronous part of reading one chat after its policy check passed:
\* no session, a session whose file cannot be resolved, or a read in flight
lookupSession(st, channel, chatId) ==
    LET found == findSessionEntryForChat(st, channel, chatId)
    IN  IF found = 0
        THEN [state |-> "nosession", session |-> 0, messages |-> <<>>]
        ELSE IF ~st[found].fileOk
        THEN [state |-> "nofile", session |-> found, messages |-> <<>>]
        ELSE [state |-> "reading", session |-> found, messages |-> <<>>]

(***************************************************************************)
(* read_chat_history                                                       *)
(***************************************************************************)
ReadArgs ==
    {[tool |-> "read_chat_history", hasChannel |-> hc,
      channel |-> IF hc THEN tg ELSE telegram,
      hasChatId |-> id # <<>>, chatId |-> id, limit |-> l, options |-> o] :
        hc \in BOOLEAN, id \in {<<>>, <<"2">>, <<"3">>, dv}, l \in Limits, o \in ToolOptions}

\* execute up to its await: the required chatId, the policy check on the
\* chat id as given, the session lookup
ReadChatHistory ==
    /\ tpc = "idle"
    /\ \E a \in ReadArgs :
          LET routeResult == evaluateCrossContextRoutePolicy(policyParams(a, telegram, a.chatId), cfg)
              looked == lookupSession(store, a.channel, a.chatId)
          IN  /\ targs' = a
              /\ IF ~a.hasChatId
                 THEN /\ tres' = [ok |-> FALSE, error |-> "read_chat_history: 'chatId' is required.",
                                  messages |-> <<>>]
                      /\ tpc' = "returned"
                      /\ UNCHANGED <<tdec, tread>>
                 ELSE IF routeResult = Raised
                 THEN /\ tpc' = "raised"
                      /\ tdec' = <<routeResult>>
                      /\ tread' = <<NoRead>>
                      /\ UNCHANGED tres
                 ELSE IF isBlocked(routeResult)
                 THEN /\ tres' = [ok |-> FALSE, error |-> "read_chat_history blocked",
                                  messages |-> <<>>]
                      /\ tpc' = "returned"
                      /\ tdec' = <<routeResult>>
                      /\ tread' = <<NoRead>>
                 ELSE /\ tdec' = <<routeResult>>
                      /\ tread' = <<looked>>
                      /\ IF looked.state = "reading"
                         THEN /\ tpc' = "await"
                              /\ UNCHANGED tres
                         ELSE /\ tpc' = "returned"
                              /\ tres' = [ok |-> looked.state = "nosession",
                                          error |-> IF looked.state = "nosession" THEN "none"
                                                    ELSE "read_chat_history: could not resolve session file",
                                          messages |-> <<>>]
    /\ UNCHANGED <<fileVars, cfg, call, policyVars, routerVars, tsend, store>>

\* readTranscriptMessages resolves and the transcript is returned
ReadCompletes ==
    /\ tpc = "await"
    /\ targs.tool = "read_chat_history"
    /\ LET messages == readTranscriptMessages(store[tread[1].session].transcript,
                                             limitOf(targs.limit, DEFAULT_LIMIT, MAX_LIMIT))
       IN  /\ tread' = <<[tread[1] EXCEPT !.state = "done", !.messages = messages]>>
           /\ tres' = [ok |-> TRUE, error |-> "none", messages |-> messages]
    /\ tpc' = "returned"
    /\ UNCHANGED <<fileVars, cfg, call, policyVars, routerVars, targs, tdec, tsend, store>>

(***************************************************************************)
(* digest_chat                                                             *)
(***************************************************************************)
DIGEST_DEFAULT_LIMIT == 20
DIGEST_MAX_LIMIT == 100
MAX_SOURCES == 10

SourceIds == {dv, <<"3">>}
SourceLists ==
    UNION {[1..n -> SourceIds] : n \in 0..MaxSources}
    \cup {[i \in 1..(MAX_SOURCES + 1) |-> <<"3">>]}
NoSendTo == [has |-> FALSE, value |-> <<>>]

DigestArgs ==
    {[tool |-> "digest_chat", hasChannel |-> TRUE, channel |-> tg, chatIds |-> ids,
      limit |-> NoLimit, sendTo |-> st, options |-> o] :
        ids \in SourceLists, st \in {NoSendTo, [has |-> TRUE, value |-> dv]}, o \in ToolOptions}
    \cup
    {[tool |-> "digest_chat", hasChannel |-> FALSE, channel |-> <<>>, chatIds |-> <<dv>>,
      limit |-> NoLimit, sendTo |-> NoSendTo, options |-> o] : o \in ToolOptions}

\* the callback of rawChatIds.map for one source chat, up to its await: it
\* throws with the evaluator, returns a blocked entry, or looks the session up
sourceOutcome(routeResult, st, channel, chatId) ==
    IF routeResult = Raised
    THEN [state |-> "threw", session |-> 0, messages |-> <<>>]
    ELSE IF isBlocked(routeResult)
    THEN [state |-> "blocked", session |-> 0, messages |-> <<>>]
    ELSE lookupSession(st, channel, chatId)

\* execute up to the await of Promise.all: the early returns, then every
\* callback of rawChatIds.map up to its own await
DigestChat ==
    /\ tpc = "idle"
    /\ \E a \in DigestArgs :
          LET chatIdOf(k) == resolveChatAlias(cfg, a.chatIds[k])
              decisions == [k \in 1..Len(a.chatIds) |->
                  evaluateCrossContextRoutePolicy(policyParams(a, a.channel, chatIdOf(k)), cfg)]
          IN  /\ targs' = a
              /\ IF ~a.hasChannel
                 THEN /\ tres' = [ok |-> FALSE, error |-> "digest_chat: 'channel' is required."]
                      /\ tpc' = "returned"
                      /\ UNCHANGED <<tdec, tread>>
                 ELSE IF Len(a.chatIds) = 0
                 THEN /\ tres' = [ok |-> FALSE, error |-> "digest_chat: 'chatIds' must be a non-empty array."]
                      /\ tpc' = "returned"
                      /\ UNCHANGED <<tdec, tread>>
                 ELSE IF Len(a.chatIds) > MAX_SOURCES
                 THEN /\ tres' = [ok |-> FALSE, error |-> "digest_chat: too many sources"]
                      /\ tpc' = "returned"
                      /\ UNCHANGED <<tdec, tread>>
                 ELSE /\ tdec' = decisions
                      /\ tread' = [k \in 1..Len(a.chatIds) |->
                                      sourceOutcome(decisions[k], store, a.channel, chatIdOf(k))]
                      /\ tpc' = "await"
                      /\ UNCHANGED tres
    /\ UNCHANGED <<fileVars, cfg, call, policyVars, routerVars, tsend, store>>

\* readTranscriptMessages of source k resolves
DigestRead(k) ==
    /\ tpc \in {"await", "raised"}
    /\ targs.tool = "digest_chat"
    /\ tread[k].state = "reading"
    /\ tread' = [tread EXCEPT ![k] =
          [state |-> "done", session |-> tread[k].session,
           messages |-> readTranscriptMessages(store[tread[k].session].transcript,
                            limitOf(targs.limit, DIGEST_DEFAULT_LIMIT, DIGEST_MAX_LIMIT))]]
    /\ UNCHANGED <<fileVars, cfg, call, policyVars, routerVars, targs, tpc, tdec, tsend, tres, store>>

\* Promise.all settles: it rejects when a callback threw, else the digest is
\* built and, when sendTo is given and the policy does not block it, sent
DigestCollect ==
    /\ tpc = "await"
    /\ targs.tool = "digest_chat"
    /\ LET threw == \E k \in 1..Len(tread) : tread[k].state = "threw"
           sendRouteResult == evaluateCrossContextRoutePolicy(
               policyParams(targs, targs.channel, resolveChatAlias(cfg, targs.sendTo.value)), cfg)
           digest(sent) ==
               [ok |-> TRUE, error |-> "none",
                chats |-> [k \in 1..Len(tread) |->
                             [ok |-> tread[k].state \in {"done", "nosession"},
                              messages |-> tread[k].messages]],
                sent |-> sent]
       IN  /\ threw \/ \A k \in 1..Len(tread) : tread[k].state # "reading"
           /\ IF threw
              THEN /\ tpc' = "raised"
                   /\ UNCHANGED <<tsend, tres>>
              ELSE IF ~targs.sendTo.has
              THEN /\ tpc' = "returned"
                   /\ tres' = digest("absent")
                   /\ UNCHANGED tsend
              ELSE IF sendRouteResult = Raised
              THEN /\ tpc' = "raised"
                   /\ UNCHANGED <<tsend, tres>>
              ELSE IF isBlocked(sendRouteResult)
              THEN /\ tpc' = "returned"
                   /\ tres' = digest("blocked")
                   /\ UNCHANGED tsend
              ELSE /\ tpc' = "send"
                   /\ tres' = digest("pending")
                   /\ tsend' = <<"inflight">>
    /\ UNCHANGED <<fileVars, cfg, call, policyVars, routerVars, targs, tdec, tread, store>>

\* runMessageAction of the digest settles inside try / catch
DigestSendSettles ==
    /\ tpc = "send"
    /\ targs.tool = "digest_chat"
    /\ \E outcome \in {"ok", "failed"} :
          /\ tsend' = <<outcome>>
          /\ tres' = [tres EXCEPT !.sent = outcome]
    /\ tpc' = "returned"
    /\ UNCHANGED <<fileVars, cfg, call, policyVars, routerVars, targs, tdec, tread, store>>

InitHistory ==
    /\ cfg \in HistoryConfigs
    /\ RoutingIdle
    /\ targs = NoArgs
    /\ tpc = "idle"
    /\ tdec = <<>>
    /\ tsend = <<>>
    /\ tread = <<>>
    /\ tres = NoResult
    /\ store \in Stores
    /\ FilesIdle

NextHistory ==
    \/ ReadChatHistory
    \/ ReadCompletes
    \/ DigestChat
    \/ \E k \in 1..Len(tread) : DigestRead(k)
    \/ DigestCollect
    \/ DigestSendSettles

SpecHistory == InitHistory /\ [][NextHistory]_vars

(***************************************************************************)
(* broadcast_to_chats                                                      *)
(***************************************************************************)
MAX_TARGETS == 10

\* chat 9 is named by no allow entry
TargetIds == {dv, <<"3">>}
LongList(n) == [i \in 1..n |-> IF i = 1 THEN dv ELSE <<"9">>]
TargetLists == UNION {[1..n -> TargetIds] : n \in 0..MaxTargets}

\* calls with short target lists, with and without channel, text and media,
\* and two calls with MAX_TARGETS and MAX_TARGETS + 1 targets
BroadcastArgs ==
    {[tool |-> "broadcast_to_chats", hasChannel |-> TRUE, channel |-> tg, chatIds |-> ids,
      hasText |-> c[1], hasMedia |-> c[2], options |-> o] :
        ids \in TargetLists, c \in {<<TRUE, FALSE>>, <<FALSE, TRUE>>, <<FALSE, FALSE>>},
        o \in ToolOptions}
    \cup
    {[tool |-> "broadcast_to_chats", hasChannel |-> FALSE, channel |-> <<>>, chatIds |-> <<dv>>,
      hasText |-> TRUE, hasMedia |-> FALSE, options |-> o] : o \in ToolOptions}
    \cup
    {[tool |-> "broadcast_to_chats", hasChannel |-> TRUE, channel |-> tg, chatIds |-> LongList(n),
      hasText |-> TRUE, hasMedia |-> FALSE,
      options |-> [hasProvider |-> TRUE, provider |-> TG, hasCurrentId |-> TRUE,
                   currentChannelId |-> <<"1">>]] : n \in {MAX_TARGETS, MAX_TARGETS + 1}}

BroadcastConfigs ==
    {[chatAliases |-> Aliases(dv :> <<"2">>), crossContextRoutes |-> rb,
      messageRoutes |-> NoMessageRoutes] :
        rb \in {b \in ToolRoutesBlocks : b.default = "unset"}}

\* the callback of rawChatIds.map for one target up to its await: "threw"
\* with the evaluator, "blocked", or the send is in flight
targetOutcome(routeResult) ==
    IF routeResult = Raised
    THEN "threw"
    ELSE IF isBlocked(routeResult)
    THEN "blocked"
    ELSE "inflight"

summaryOkUnlessFailed(outcome) == outcome # "failed"

\* ok of one summary entry: only a callback that sent and returned has ok true
summaryOk(outcome) == outcome = "ok"

NoCounts == [ok |-> FALSE, hasCounts |-> FALSE, sent |-> 0, failed |-> 0, results |-> <<>>]

\* execute up to the await of Promise.allSettled: the early returns, then
\* every callback of rawChatIds.map up to its own await
BroadcastToChats ==
    /\ tpc = "idle"
    /\ \E a \in BroadcastArgs :
          LET chatIdOf(k) == resolveChatAlias(cfg, a.chatIds[k])
              decisions == [k \in 1..Len(a.chatIds) |->
                  evaluateCrossContextRoutePolicy(policyParams(a, a.channel, chatIdOf(k)), cfg)]
          IN  /\ targs' = a
              /\ IF \/ ~a.hasChannel
                    \/ Len(a.chatIds) = 0
                    \/ Len(a.chatIds) > MAX_TARGETS
                    \/ ~a.hasText /\ ~a.hasMedia
                 THEN /\ tres' = NoCounts
                      /\ tpc' = "returned"
                      /\ UNCHANGED <<tdec, tsend>>
                 ELSE /\ tdec' = decisions
                      /\ tsend' = [k \in 1..Len(a.chatIds) |-> targetOutcome(decisions[k])]
                      /\ tpc' = "await"
                      /\ UNCHANGED tres
    /\ UNCHANGED <<fileVars, cfg, call, policyVars, routerVars, tread, store>>

\* runMessageAction of target k resolves or rejects; its callback settles
BroadcastSendSettles(k) ==
    /\ tpc = "await"
    /\ targs.tool = "broadcast_to_chats"
    /\ tsend[k] = "inflight"
    /\ \E outcome \in {"ok", "failed"} : tsend' = [tsend EXCEPT ![k] = outcome]
    /\ UNCHANGED <<fileVars, cfg, call, policyVars, routerVars, targs, tpc, tdec, tread, tres, store>>

\* Promise.allSettled resolves; the outcomes are tallied and returned
BroadcastCollect ==
    /\ tpc = "await"
    /\ targs.tool = "broadcast_to_chats"
    /\ \A k \in 1..Len(tsend) : tsend[k] # "inflight"
    /\ LET summary == [k \in 1..Len(tsend) |-> summaryOk(tsend[k])]
           sent == Cardinality({k \in 1..Len(summary) : summary[k]})
           failed == Cardinality({k \in 1..Len(summary) : ~summary[k]})
       IN  tres' = [ok |-> \A k \in 1..Len(summary) : summary[k], hasCounts |-> TRUE,
                    sent |-> sent, failed |-> failed, results |-> summary]
    /\ tpc' = "returned"
    /\ UNCHANGED <<fileVars, cfg, call, policyVars, routerVars, targs, tdec, tsend, tread, store>>

InitBroadcast ==
    /\ cfg \in BroadcastConfigs
    /\ RoutingIdle
    /\ ToolsIdle
    /\ FilesIdle

NextBroadcast ==
    \/ BroadcastToChats
    \/ \E k \in 1..Len(tsend) : BroadcastSendSettles(k)
    \/ BroadcastCollect

SpecBroadcast == InitBroadcast /\ [][NextBroadcast]_vars

(***************************************************************************)
(* Direct calls of applyTemplate                                           *)
(***************************************************************************)
\* nothing configured, no call made, no workspace file written
InitBare ==
    /\ cfg = [chatAliases |-> NoAliases, crossContextRoutes |-> NoRoutes,
              messageRoutes |-> NoMessageRoutes]
    /\ RoutingIdle
    /\ ToolsIdle
    /\ FilesIdle

\* the templates of one token, and the prefix of the forwarding example
Templates ==
    {<<"{", "c", "h", "a", "t", "T", "i", "t", "l", "e", "}">>,
     <<"{", "c", "h", "a", "t", "I", "d", "}">>,
     <<"{", "u", "s", "e", "r", "n", "a", "m", "e", "}">>,
     <<"{", "s", "e", "n", "d", "e", "r", "}">>,
     <<"{", "s", "e", "n", "d", "e", "r", "}", " ", "i", "n", " ",
       "{", "c", "h", "a", "t", "T", "i", "t", "l", "e", "}", ":", " ">>}

\* the contexts of the router, and chats whose title is the text of a token
TemplateContexts ==
    Contexts
    \cup {Context([has |-> TRUE, text |-> hello], <<"1">>, sid, telegram, title) :
             sid \in {u1, u2},
             title \in {<<"{", "s", "e", "n", "d", "e", "r", "}">>,
                        <<"{", "u", "s", "e", "r", "n", "a", "m", "e", "}">>,
                        <<"{", "c", "h", "a", "t", "I", "d", "}">>}}

TemplateCall ==
    /\ call.fn = "none"
    /\ \E template \in Templates : \E c \in TemplateContexts :
          /\ ctx' = c
          /\ call' = [fn |-> "template", pattern |-> template, channel |-> <<>>,
                      chatId |-> <<>>, bres |-> FALSE, sres |-> applyTemplate(template, c)]
    /\ UNCHANGED <<fileVars, toolVars, cfg, policyVars, rpc, ridx, attempted, cb, sends,
                   outbound, returned>>

SpecTemplate == InitBare /\ [][TemplateCall]_vars

(***************************************************************************)
(* chat-registry.ts                                                        *)
(***************************************************************************)
\* calls of updateChatRegistry and of updateMemorySection in one behaviour
MaxCalls == 3

\* String.prototype.startsWith
startsWith(s, p) == Len(p) <= Len(s) /\ SubSeq(s, 1, Len(p)) = p

\* String.prototype.trimEnd
trimEnd(s) ==
    LET keep == {i \in 1..Len(s) : ~IsWhite(s[i])}
    IN  IF keep = {} THEN <<>>
        ELSE SubSeq(s, 1, CHOOSE i \in keep : \A j \in keep : j <= i)

\* String.prototype.split("\n"): the pieces between the line feeds
split(s) ==
    LET feeds == {i \in 1..Len(s) : s[i] = "\n"}
        feed(k) == IF k = 0 THEN 0
                   ELSE IF k > Cardinality(feeds) THEN Len(s) + 1
                   ELSE CHOOSE i \in feeds : Cardinality({j \in feeds : j <= i}) = k
    IN  [k \in 1..(Cardinality(feeds) + 1) |-> SubSeq(s, feed(k - 1) + 1, feed(k) - 1)]

\* Array.prototype.join
RECURSIVE join(_, _)
join(pieces, sep) ==
    IF Len(pieces) = 0 THEN <<>>
    ELSE IF Len(pieces) = 1 THEN pieces[1]
    ELSE pieces[1] \o sep \o join(Tail(pieces), sep)

\* the em dash of an entry line
EmDash == "emdash"

REGISTRY_HEADER ==
    <<"#", " ", "C", "h", "a", "t", " ", "R", "e", "g", "i", "s", "t", "r",
      "y", "\n", "\n", "K", "n", "o", "w", "n", " ", "T", "e", "l", "e",
      "g", "r", "a", "m", " ", "c", "h", "a", "t", "s", " ", "t", "h", "i",
      "s", " ", "a", "s", "s", "i", "s", "t", "a", "n", "t", " ", "h", "a",
      "s", " ", "s", "e", "e", "n", ".", " ", "U", "s", "e", " ", "t", "h",
      "e", "s", "e", " ", "I", "D", "s", " ", "(", "o", "r", " ", "a", "l",
      "i", "a", "s", " ", "n", "a", "m", "e", "s", ")", " ", "w", "i", "t",
      "h", " ", Grave, "s", "e", "n", "d", "_", "t", "o", "_", "c", "h",
      "a", "t", Grave, ".", "\n">>

\* a ChatRegistryEntry; alias is optional
NoAlias == [has |-> FALSE, value |-> <<>>]
Entry(chatId, title, type, alias) ==
    [chatId |-> chatId, title |-> title, type |-> type, alias |-> alias]

buildEntryLine(entry) ==
    LET typeLabel ==
            CASE entry.type = "dm" -> <<"D", "M">>
              [] entry.type = "supergroup" -> <<"s", "u", "p", "e", "r", "g", "r", "o", "u", "p">>
              [] entry.type = "channel" -> <<"c", "h", "a", "n", "n", "e", "l">>
              [] OTHER -> <<"g", "r", "o", "u", "p">>
        aliasSuffix ==
            IF entry.alias.has /\ entry.alias.value # <<>>
            THEN <<" ", "|", " ", "a", "l", "i", "a", "s", ":", " ", "*", "*">>
                 \o entry.alias.value \o <<"*", "*">>
            ELSE <<>>
    IN  <<"-", " ", "*", "*">> \o entry.chatId \o <<"*", "*", " ", EmDash, " ">> \o entry.title
        \o <<" ", "(">> \o typeLabel \o <<")">> \o aliasSuffix

\* updateChatRegistry on the content read: whether it writes, and the content
\* of the file afterwards; at is the result of findIndex, 1-based, 0 for -1
updateChatRegistry(existing, entry) ==
    LET newLine == buildEntryLine(entry)
        idPrefix == <<"-", " ", "*", "*">> \o entry.chatId \o <<"*", "*">>
        lines == split(existing)
        hits == {i \in 1..Len(lines) : startsWith(lines[i], idPrefix)}
        at == IF hits = {} THEN 0 ELSE CHOOSE i \in hits : \A j \in hits : i <= j
    IN  IF trim(existing) # <<>>
        THEN IF at # 0
             THEN IF lines[at] = newLine
                  THEN [wrote |-> FALSE, content |-> existing]
                  ELSE [wrote |-> TRUE,
                        content |-> join([lines EXCEPT ![at] = newLine], <<"\n">>)]
             ELSE [wrote |-> TRUE,
                   content |-> trimEnd(existing) \o <<"\n">> \o newLine \o <<"\n">>]
        ELSE [wrote |-> TRUE, content |-> REGISTRY_HEADER \o newLine \o <<"\n">>]

\* the entries of the calls: chat 2 and chat 23, whose id starts with 2; two
\* titles; a group without alias and a DM with one; a title of two lines
RegistryEntries ==
    {Entry(id, title, ta[1], ta[2]) :
        id \in {<<"2">>, <<"2", "3">>}, title \in {<<"A">>, <<"B">>},
        ta \in {<<"group", NoAlias>>, <<"dm", [has |-> TRUE, value |-> dv]>>}}
    \cup {Entry(<<"2">>, <<"A", "\n", "B">>, "group", NoAlias)}

\* one call of updateChatRegistry, from its read of the file to its write;
\* the calls are made one after another
UpdateChatRegistry ==
    /\ Len(chatsCalls) < MaxCalls
    /\ \E entry \in RegistryEntries :
          LET r == updateChatRegistry(chatsFile, entry)
          IN  /\ chatsFile' = r.content
              /\ chatsCalls' = Append(chatsCalls, [entry |-> entry, wrote |-> r.wrote])
    /\ UNCHANGED <<cfg, call, policyVars, routerVars, toolVars, memoryFile, memoryRead, memoryCalls>>

SpecRegistry == InitBare /\ [][UpdateChatRegistry]_vars

(***************************************************************************)
(* memory-store.ts                                                         *)
(***************************************************************************)
MEMORY_HEADER ==
    <<"#", " ", "M", "e", "m", "o", "r", "y", "\n", "\n", "P", "e", "r",
      "s", "i", "s", "t", "e", "n", "t", " ", "n", "o", "t", "e", "s", " ",
      "a", "c", "r", "o", "s", "s", " ", "a", "l", "l", " ", "s", "e", "s",
      "s", "i", "o", "n", "s", " ", "a", "n", "d", " ", "c", "o", "n", "v",
      "e", "r", "s", "a", "t", "i", "o", "n", "s", ".", "\n">>

H2 == <<"#", "#", " ">>

\* a Section
Section(name, content) == [name |-> name, content |-> content]

\* sections.push of the open section, if there is one
pushCurrent(sections, current) ==
    IF current.open
    THEN Append(sections, Section(current.name, trimEnd(join(current.lines, <<"\n">>))))
    ELSE sections

\* the for-loop of parseSections from line i on, and the push after it
RECURSIVE parseFrom(_, _, _, _)
parseFrom(lines, i, sections, current) ==
    IF i > Len(lines)
    THEN pushCurrent(sections, current)
    ELSE IF startsWith(lines[i], H2)
    THEN parseFrom(lines, i + 1, pushCurrent(sections, current),
                   [open |-> TRUE, name |-> trim(sliceFrom(lines[i], Len(H2))), lines |-> <<>>])
    ELSE IF current.open
    THEN parseFrom(lines, i + 1, sections, [current EXCEPT !.lines = Append(@, lines[i])])
    ELSE parseFrom(lines, i + 1, sections, current)

\* no section is open before the first heading line
parseSections(text) ==
    parseFrom(split(text), 1, <<>>, [open |-> FALSE, name |-> <<>>, lines |-> <<>>])

buildFile(sections) ==
    IF Len(sections) = 0
    THEN MEMORY_HEADER
    ELSE MEMORY_HEADER
         \o join([k \in 1..Len(sections) |->
                     H2 \o sections[k].name \o <<"\n">> \o sections[k].content],
                 <<"\n", "\n">>)
         \o <<"\n">>

\* updateMemorySection on the content read: whether it writes, and the
\* content of the file afterwards; at is the result of findIndex by
\* lower-cased name, 1-based, 0 for -1
updateMemorySection(existing, section, content, mode) ==
    LET sections == parseSections(existing)
        hits == {i \in 1..Len(sections) :
                    toLowerCase(sections[i].name) = toLowerCase(section)}
        at == IF hits = {} THEN 0 ELSE CHOOSE i \in hits : \A j \in hits : i <= j
        written(secs) == [wrote |-> TRUE, content |-> buildFile(secs)]
    IN  IF mode = "delete"
        THEN IF at = 0
             THEN [wrote |-> FALSE, content |-> existing]
             ELSE written(SubSeq(sections, 1, at - 1)
                          \o SubSeq(sections, at + 1, Len(sections)))
        ELSE IF mode = "append"
        THEN IF at = 0
             THEN written(Append(sections, Section(section, trimEnd(content))))
             ELSE LET sep == IF trim(sections[at].content) # <<>> THEN <<"\n">> ELSE <<>>
                  IN  written([sections EXCEPT ![at] =
                          Section(sections[at].name,
                                  sections[at].content \o sep \o <<"\n">> \o trimEnd(content))])
        ELSE IF at = 0
             THEN written(Append(sections, Section(section, trimEnd(content))))
             ELSE written([sections EXCEPT ![at] = Section(sections[at].name, trimEnd(content))])

\* the calls: sections S, s and T; contents of one line, with trailing white
\* space, and with a heading line of their own
MemoryCallInputs ==
    {[section |-> n, content |-> c, mode |-> "replace"] :
        n \in {<<"S">>, <<"s">>, <<"T">>},
        c \in {<<"b">>, <<"a", " ", "\n">>, <<"x", "\n", "#", "#", " ", "T", "\n", "y">>}}
    \cup
    {[section |-> n, content |-> <<"b">>, mode |-> "append"] : n \in {<<"S">>, <<"T">>}}
    \cup
    {[section |-> n, content |-> <<>>, mode |-> "delete"] : n \in {<<"S">>, <<"s">>, <<"T">>}}

\* one call of updateMemorySection, from its read of the file to its write;
\* the calls are made one after another
UpdateMemorySection ==
    /\ Len(memoryCalls) < MaxCalls
    /\ \E a \in MemoryCallInputs :
          LET r == updateMemorySection(memoryFile, a.section, a.content, a.mode)
          IN  /\ memoryRead' = memoryFile
              /\ memoryFile' = r.content
              /\ memoryCalls' = Append(memoryCalls,
                    [section |-> a.section, content |-> a.content, mode |-> a.mode,
                     wrote |-> r.wrote])
    /\ UNCHANGED <<cfg, call, policyVars, routerVars, toolVars, chatsFile, chatsCalls>>

SpecMemory == InitBare /\ [][UpdateMemorySection]_vars

(***************************************************************************)
(* Properties of the route policy evaluator                                *)
(***************************************************************************)
Routes == cfg.crossContextRoutes
AllowList == IF Routes.hasAllow THEN Routes.allow ELSE <<>>

\* entry i passes its from pattern, its to pattern and its chatIds restriction
FromToMatch(i) ==
    /\ matchesChannelPattern(AllowList[i].from, req.fromChannel, req.fromChatId, cfg)
    /\ matchesChannelPattern(AllowList[i].to, req.toChannel, req.toChatId, cfg)
Restricted(i) == AllowList[i].hasChatIds /\ AllowList[i].chatIds # <<>>
TrimmedChatIds(i) == {trim(AllowList[i].chatIds[k]) : k \in 1..Len(AllowList[i].chatIds)}
LiteralChatIds(i) == {AllowList[i].chatIds[k] : k \in 1..Len(AllowList[i].chatIds)}
FullyMatches(i) ==
    /\ FromToMatch(i)
    /\ Restricted(i) => trim(req.toChatId) \in TrimmedChatIds(i)
Matching == {i \in 1..Len(AllowList) : FullyMatches(i)}
FirstMatching == CHOOSE i \in Matching : \A j \in Matching : i <= j

\* C1: without a crossContextRoutes block the evaluator returns undefined for
\* every request, never a decision
C1_AbsentPolicyIsNoOpinion ==
    (pc = "done" /\ ~Routes.present) => result.kind = "undefined"

C1_Witness ==
    /\ pc = "done"
    /\ ~Routes.present
    /\ cfg.chatAliases.present
    /\ req.toChannel = dc
    /\ result = Undefined

\* C2: with a policy block, when some allow rule fully matches, the decision is
\* an allow whose reason names the from and to of the lowest-index such rule
C2_FirstMatchWins ==
    (pc = "done" /\ Routes.present /\ Matching # {}) =>
        /\ result.kind = "decision"
        /\ result.allowed
        /\ result.reason.head = "crossContextRoutes allow"
        /\ result.reason.from = AllowList[FirstMatching].from
        /\ result.reason.to = AllowList[FirstMatching].to

C2_Witness ==
    /\ pc = "done"
    /\ Routes.present
    /\ Matching = {1, 2}
    /\ AllowList[1].from # AllowList[2].from
    /\ AllowList[1].to # AllowList[2].to
    /\ result.allowed
    /\ result.reason.from = AllowList[1].from
    /\ result.reason.to = AllowList[1].to

\* C3: with a policy block and no fully matching rule, the request is allowed
\* iff the configured default is "allow" (denied when unspecified), and a deny
\* cites the default and the source and destination channel:chatId pairs
C3_DefaultAction ==
    (pc = "done" /\ Routes.present /\ Matching = {}) =>
        /\ result.kind = "decision"
        /\ result.allowed = (Routes.default = "allow")
        /\ ~result.allowed =>
              /\ result.reason.head = "crossContextRoutes default=deny, no allow rule matched"
              /\ result.reason.from = req.fromChannel \o <<":">> \o req.fromChatId
              /\ result.reason.to = req.toChannel \o <<":">> \o req.toChatId

C3_Witness ==
    /\ pc = "done"
    /\ Routes.present
    /\ Routes.default = "unset"
    /\ Len(AllowList) = 1
    /\ Matching = {}
    /\ ~result.allowed
    /\ result.reason.to = tg \o <<":">> \o <<"3">>

\* C6 as stated: a rule with a non-empty chatIds list yields an allow only for
\* a destination whose trimmed chat id is literally an element of the list
C6_LiteralMembership ==
    (pc = "done" /\ result.reason.head = "crossContextRoutes allow" /\ Restricted(idx)) =>
        trim(req.toChatId) \in LiteralChatIds(idx)

\* C6 amended: a rule with a non-empty chatIds list yields an allow only for a
\* destination whose trimmed chat id equals, case-sensitively and without
\* alias resolution, some element of the list after that element is trimmed;
\* a rule failing only this test is skipped and the following rules decide
C6_TrimmedMembership ==
    /\ (pc = "done" /\ result.reason.head = "crossContextRoutes allow" /\ Restricted(idx)) =>
          trim(req.toChatId) \in TrimmedChatIds(idx)
    /\ (pc = "done" /\ Routes.present) =>
          \A i \in 1..Len(AllowList) :
             (FromToMatch(i) /\ ~FullyMatches(i) /\ \E j \in Matching : j > i) =>
                (result.allowed /\ idx # i)

C6_Witness ==
    /\ pc = "done"
    /\ Len(AllowList) = 2
    /\ FromToMatch(1)
    /\ Restricted(1)
    /\ req.toChatId = <<"2">>
    /\ Matching = {2}
    /\ result.allowed
    /\ idx = 2

(***************************************************************************)
(* Properties of the pattern matcher and the alias resolver                *)
(***************************************************************************)
\* channel names without blanks, as a pattern's channel part
ChannelNames == {tg, TG, dc}

C5_SelectorResolvedAnyCase ==
    \A l \in Pads, r \in Pads, ch \in ChannelNames, sel \in Selectors :
        (call.fn = "match" /\ call.pattern = l \o ch \o <<":">> \o sel \o r) =>
            LET table == cfg.chatAliases.table
                channelOk == toLowerCase(ch) = toLowerCase(trim(call.channel))
                id == toLowerCase(trim(call.chatId))
            IN  /\ (cfg.chatAliases.present /\ sel \in DOMAIN table) =>
                      call.bres = (channelOk /\ toLowerCase(trim(table[sel])) = id)
                /\ (\A key \in DOMAIN table : toLowerCase(key) # toLowerCase(sel)) =>
                      call.bres = (channelOk /\ toLowerCase(sel) = id)

RouteRule(i) == cfg.messageRoutes.rules[i]

\* rule i is enabled, of the context's channel, its from pattern matches, its
\* filters pass, its resolved target is not the source chat and its rendered
\* text is not empty
Fires(i) ==
    /\ ~RouteRule(i).isNull
    /\ ~RouteRule(i).enabledFalse
    /\ toLowerCase(IF RouteRule(i).hasChannel THEN RouteRule(i).channel ELSE telegram)
          = toLowerCase(ctx.channel)
    /\ matchesFromPattern(RouteRule(i).from, ctx)
    /\ passesFilter(RouteRule(i).filter, ctx)
    /\ resolveChatAlias(cfg, RouteRule(i).to) # ctx.chatId
    /\ buildForwardedText([has |-> ctx.hasText, text |-> ctx.text],
                          RouteRule(i).transform, ctx) # <<>>
Firing == {i \in 1..RuleCount : Fires(i)}
FailedSends == {i \in 1..RuleCount : sends[i] = "failed"}

\* C8: every configured rule is evaluated, and the value returned is the
\* number of rules that pass every test, whatever became of the sends
C8_ReturnsCountOfFiringRules ==
    rpc = "returned" =>
        /\ returned = Cardinality(Firing)
        /\ \A i \in 1..Len(cb) : cb[i] # "notrun"

C8_Witness ==
    /\ rpc = "returned"
    /\ RuleCount = 2
    /\ RouteRule(1) # RouteRule(2)
    /\ sends = <<"failed", "failed">>
    /\ returned = 2

\* C9: when the send of one firing rule fails the call does not raise, the
\* sender has been invoked for every other firing rule and those rules are in
\* the returned count
C9_FailedSendIsIsolated ==
    /\ rpc # "raised"
    /\ (rpc = "returned" /\ FailedSends # {}) =>
          \A f \in FailedSends :
             /\ \A j \in Firing \ {f} : sends[j] \in {"ok", "failed"}
             /\ returned >= Cardinality(Firing \ {f})

C9_Witness ==
    /\ rpc = "returned"
    /\ Firing = {1, 2}
    /\ sends = <<"failed", "ok">>
    /\ returned = 2

\* C10: when runMessageRoutes returns, no send it dispatched is in flight and
\* every callback has settled
C10_ReturnsAfterAllSettled ==
    rpc = "returned" =>
        /\ \A i \in 1..Len(sends) : sends[i] # "inflight"
        /\ \A i \in 1..Len(cb) : cb[i] \in {"fulfilled", "rejected"}

C10_Witness ==
    /\ rpc = "returned"
    /\ RuleCount = 2
    /\ sends = <<"ok", "failed">>
    /\ cb = <<"fulfilled", "fulfilled">>

\* the rules for which runMessageAction was called
Dispatched == {i \in 1..Len(sends) : sends[i] # "none"}

\* C11: a rule whose to resolves through the alias table to the source chat id
\* never causes a send and is not one of the rules counted in the return value
C11_SelfForwardNeverSent ==
    /\ \A i \in 1..Len(sends) :
          (~RouteRule(i).isNull /\ resolveChatAlias(cfg, RouteRule(i).to) = ctx.chatId) =>
              /\ sends[i] = "none"
              /\ outbound[i] = NoParams
    /\ rpc = "returned" => returned = Cardinality(Dispatched)

C11_Witness ==
    /\ rpc = "returned"
    /\ RuleCount = 2
    /\ RouteRule(1) = Rule(<<"T", "e", "l", "e", "g", "r", "a", "m">>, dv)
    /\ RouteRule(2) = Rule(<<"*">>, <<"2">>)
    /\ ctx.chatId = <<"1">>
    /\ ctx.channel = telegram
    /\ ctx.hasText /\ trim(ctx.text) # <<>>
    /\ sends = <<"none", "ok">>
    /\ returned = 1

\* the text of the inbound message, empty when it has none
InboundText == IF ctx.hasText THEN ctx.text ELSE <<>>

\* prefix template rendered, then the inbound text, then the suffix template
\* rendered, trimmed
RenderedText(i) ==
    trim((IF RouteRule(i).transform.prefix # <<>>
          THEN applyTemplate(RouteRule(i).transform.prefix, ctx) ELSE <<>>)
         \o InboundText
         \o (IF RouteRule(i).transform.suffix # <<>>
             THEN applyTemplate(RouteRule(i).transform.suffix, ctx) ELSE <<>>))

\* some keyword of rule i occurs in the inbound text, letter case ignored
KeywordOccurs(i) ==
    \E k \in 1..Len(RouteRule(i).filter.keywords) :
        includes(toLowerCase(InboundText), toLowerCase(RouteRule(i).filter.keywords[k]))

HasKeywords(i) == RouteRule(i).filter.present /\ Len(RouteRule(i).filter.keywords) > 0

\* rule i passes the enabled, channel, from and self-loop checks
PassesOtherChecks(i) ==
    /\ ~RouteRule(i).isNull
    /\ ~RouteRule(i).enabledFalse
    /\ toLowerCase(IF RouteRule(i).hasChannel THEN RouteRule(i).channel ELSE telegram)
          = toLowerCase(ctx.channel)
    /\ matchesFromPattern(RouteRule(i).from, ctx)
    /\ resolveChatAlias(cfg, RouteRule(i).to) # ctx.chatId

\* C12 as stated: a rule with keywords fires only for a message that has a
\* text in which some keyword occurs, letter case ignored, and a rule without
\* a filter fires for every message that passes the enabled, channel, from
\* and self-loop checks
C12_KeywordRuleNeedsText ==
    \A i \in 1..Len(sends) :
        /\ (~RouteRule(i).isNull /\ HasKeywords(i) /\ i \in Dispatched) =>
               (ctx.hasText /\ KeywordOccurs(i))
        /\ (cb[i] # "notrun" /\ PassesOtherChecks(i) /\ ~RouteRule(i).filter.present) =>
               i \in Dispatched

\* C12 amended: a rule with keywords fires only when some keyword occurs in
\* the inbound text (the empty text for a message without one), letter case
\* ignored, and a rule without a filter fires for every message that passes
\* the enabled, channel, from and self-loop checks and whose rendered text is
\* not empty
C12_KeywordRuleNeedsOccurrence ==
    \A i \in 1..Len(sends) :
        /\ (~RouteRule(i).isNull /\ HasKeywords(i) /\ i \in Dispatched) => KeywordOccurs(i)
        /\ (cb[i] # "notrun" /\ PassesOtherChecks(i) /\ ~RouteRule(i).filter.present
              /\ RenderedText(i) # <<>>) =>
               i \in Dispatched

\* a keyword rule is sent for "Urgent!" and a rule without a filter is not
\* sent for the same chat when the message has no text
C12_Witness ==
    /\ rpc = "returned"
    /\ RuleCount = 2
    /\ HasKeywords(1) /\ RouteRule(1).filter.keywords = << <<"u", "r", "g", "e", "n", "t">> >>
    /\ ctx.text = <<"U", "r", "g", "e", "n", "t", "!">>
    /\ RouteRule(2) = Rule(<<"*">>, <<"2">>)
    /\ PassesOtherChecks(2)
    /\ sends = <<"ok", "ok">>

\* the value a template token stands for
TokenNames ==
    {<<"{", "c", "h", "a", "t", "T", "i", "t", "l", "e", "}">>,
     <<"{", "c", "h", "a", "t", "I", "d", "}">>,
     <<"{", "s", "e", "n", "d", "e", "r", "}">>,
     <<"{", "u", "s", "e", "r", "n", "a", "m", "e", "}">>}

TokenValue(name) ==
    CASE name = <<"{", "c", "h", "a", "t", "T", "i", "t", "l", "e", "}">> -> ctx.chatTitle
      [] name = <<"{", "c", "h", "a", "t", "I", "d", "}">> -> ctx.chatId
      [] name = <<"{", "s", "e", "n", "d", "e", "r", "}">> ->
            IF ctx.senderFirstName # <<>> /\ ctx.senderLastName # <<>>
            THEN ctx.senderFirstName \o <<" ">> \o ctx.senderLastName
            ELSE IF ctx.senderFirstName \o ctx.senderLastName # <<>>
            THEN ctx.senderFirstName \o ctx.senderLastName
            ELSE ctx.senderId
      [] OTHER -> IF ctx.senderUsername # <<>> THEN <<"@">> \o ctx.senderUsername ELSE <<>>

TokenAt(template, pos) ==
    {n \in TokenNames : pos + Len(n) - 1 <= Len(template)
                        /\ SubSeq(template, pos, pos + Len(n) - 1) = n}

\* the template with every token replaced by the value it stands for
RECURSIVE Substituted(_, _)
Substituted(template, pos) ==
    IF pos > Len(template) THEN <<>>
    ELSE IF TokenAt(template, pos) # {}
    THEN LET n == CHOOSE n \in TokenAt(template, pos) : TRUE
         IN  TokenValue(n) \o Substituted(template, pos + Len(n))
    ELSE <<template[pos]>> \o Substituted(template, pos + 1)

\* C13: the text handed to the sender is the prefix template, the inbound
\* text and the suffix template in that order (surrounding blanks dropped),
\* each token of the templates replaced by the chat title, the chat id, the
\* sender name or the username
C13_ForwardedTextIsSubstitutedTemplate ==
    \A i \in Dispatched :
        outbound[i].message =
            trim(Substituted(RouteRule(i).transform.prefix, 1) \o InboundText
                 \o Substituted(RouteRule(i).transform.suffix, 1))

\* C14: a rule whose rendered text is empty after trimming is not sent and not
\* counted, and every other rule that fires is still sent and counted
C14_EmptyTextNotSent ==
    /\ \A i \in 1..Len(sends) :
          (~RouteRule(i).isNull /\ RenderedText(i) = <<>>) =>
              /\ sends[i] = "none"
              /\ outbound[i] = NoParams
    /\ rpc = "returned" =>
          /\ returned = Cardinality(Dispatched)
          /\ \A j \in Firing : j \in Dispatched /\ RenderedText(j) # <<>>

\* a blank message: the bare rule is skipped, the rule with a suffix is sent
C14_Witness ==
    /\ rpc = "returned"
    /\ RuleCount = 2
    /\ RouteRule(1) = Rule(<<"*">>, <<"2">>)
    /\ PassesOtherChecks(1)
    /\ ctx.hasText /\ ctx.text = <<" ">>
    /\ RouteRule(2).transform.suffix # <<>>
    /\ sends = <<"none", "ok">>
    /\ outbound[2].message = <<".">>
    /\ returned = 1

\* C15: an enabled rule whose from is "*" fires for an inbound message of any
\* channel and any chat, provided its filters pass, its resolved target is not
\* the source chat and its rendered text is not empty
C15_StarRuleFiresOnAnyChannel ==
    \A i \in 1..Len(sends) :
        (/\ cb[i] # "notrun"
         /\ ~RouteRule(i).isNull
         /\ ~RouteRule(i).enabledFalse
         /\ RouteRule(i).from = <<"*">>
         /\ passesFilter(RouteRule(i).filter, ctx)
         /\ resolveChatAlias(cfg, RouteRule(i).to) # ctx.chatId
         /\ RenderedText(i) # <<>>) =>
            i \in Dispatched

\* C17: every send of a batch is handed the caller's cancellation signal, and
\* a send that was cancelled or failed never makes runMessageRoutes raise
C17_SendsCarryCancellationSignal ==
    /\ \A i \in Dispatched : outbound[i].abortSignal # "undefined"
    /\ rpc # "raised"

\* C16: an allow entry that cannot be read (a null entry, a from or to that is
\* not a string) counts as not matching, and the evaluator never raises
C16_MalformedEntryNeverRaises == pc # "raised"

(***************************************************************************)
(* Properties of the agent tools                                           *)
(***************************************************************************)
\* the sender has been invoked for target k of the tool call
Invoked(k) == k <= Len(tsend) /\ tsend[k] # "none"

\* what the evaluator returns for the chat send_to_chat was asked to reach
SendDecision ==
    evaluateCrossContextRoutePolicy(
        policyParams(targs, targs.channel, resolveChatAlias(cfg, targs.chatId)), cfg)

\* C18 as stated: send_to_chat invokes the sender only when the evaluator
\* returned allowed true; a request it denies is never sent and the reason of
\* the denial is returned as the error
C18_SentOnlyWhenAllowed ==
    (targs.tool = "send_to_chat" /\ targs.hasChannel /\ targs.hasChatId) =>
        /\ Invoked(1) => (SendDecision.kind = "decision" /\ SendDecision.allowed)
        /\ (SendDecision.kind = "decision" /\ ~SendDecision.allowed) =>
              /\ ~Invoked(1)
              /\ tpc = "returned"
              /\ ~tres.ok
              /\ tres.reason = SendDecision.reason

\* C18 amended: send_to_chat invokes the sender only when the evaluator
\* returned allowed true or, crossContextRoutes being absent, no opinion; a
\* request it denies is never sent and the reason of the denial is returned
\* as the error
C18_NeverSentWhenDenied ==
    (targs.tool = "send_to_chat" /\ targs.hasChannel /\ targs.hasChatId) =>
        /\ Invoked(1) =>
              \/ SendDecision.kind = "decision" /\ SendDecision.allowed
              \/ SendDecision.kind = "undefined" /\ ~cfg.crossContextRoutes.present
        /\ (SendDecision.kind = "decision" /\ ~SendDecision.allowed) =>
              /\ ~Invoked(1)
              /\ tpc = "returned"
              /\ ~tres.ok
              /\ tres.reason = SendDecision.reason

\* an alias target that the policy denies returns the default-deny reason
\* without a send
C18_Witness ==
    /\ targs.tool = "send_to_chat"
    /\ targs.hasChannel
    /\ targs.chatId = dv
    /\ SendDecision = DenyByDefault(policyParams(targs, targs.channel, <<"2">>))
    /\ tpc = "returned"
    /\ tsend = <<"none">>
    /\ tres.reason = SendDecision.reason

\* the chat has a policy decision and it is a deny, for a request made with
\* the options of the tool call in progress
DeniedChat(defaultChannel, chat) ==
    LET d == evaluateCrossContextRoutePolicy(policyParams(targs, defaultChannel, chat), cfg)
    IN  d.kind = "decision" /\ ~d.allowed

HistoryDefaultChannel == IF targs.tool = "read_chat_history" THEN telegram ELSE targs.channel

\* C19: read_chat_history and digest_chat never read or return a transcript
\* message of a chat the policy denies: a denied source chat has a blocked
\* entry without messages and without a read, and no message read or returned
\* for another source belongs to a denied chat
C19_NoTranscriptOfDeniedChat ==
    targs.tool \in {"read_chat_history", "digest_chat"} =>
        \A k \in 1..Len(tread) :
            /\ (tdec[k].kind = "decision" /\ ~tdec[k].allowed) =>
                  /\ tread[k].state \in {"none", "blocked"}
                  /\ tread[k].session = 0
                  /\ tread[k].messages = <<>>
            /\ tread[k].session # 0 =>
                  ~DeniedChat(HistoryDefaultChannel, store[tread[k].session].chat)

\* the sender was called for target k of a broadcast
Sent(k) == tsend[k] \in {"inflight", "ok", "failed"}

TargetCount == Len(targs.chatIds)

\* what the evaluator returns for target k of the broadcast
TargetDecision(k) ==
    evaluateCrossContextRoutePolicy(
        policyParams(targs, targs.channel, resolveChatAlias(cfg, targs.chatIds[k])), cfg)

\* the tally of a returned broadcast agrees with what became of the targets
TallyRight ==
    tpc = "returned" =>
        /\ tres.hasCounts
        /\ tres.sent = Cardinality({k \in 1..Len(tsend) : tsend[k] = "ok"})
        /\ tres.sent + tres.failed = TargetCount
        /\ tres.ok <=> tres.failed = 0

\* C20 as stated: in a broadcast to 1..10 targets the sender is called exactly
\* for the targets whose decision is not a deny, whatever becomes of the other
\* targets, and sent + failed is the number of targets with ok true iff
\* failed is 0; a broadcast to more than 10 targets sends nothing
C20_EveryTargetNotDeniedIsSent ==
    (targs.tool = "broadcast_to_chats" /\ targs.hasChannel) =>
        /\ tpc # "raised"
        /\ (TargetCount >= 1 /\ TargetCount <= 10) =>
              /\ Len(tsend) = TargetCount
              /\ \A k \in 1..Len(tsend) :
                    Sent(k) <=> ~(tdec[k].kind = "decision" /\ ~tdec[k].allowed)
              /\ TallyRight
        /\ TargetCount > 10 => tsend = <<>>

\* C20 amended: in a broadcast with a text or media to 1..10 targets the
\* sender is called exactly for the targets for which the evaluator returned
\* allowed true or no opinion (a target it denies, or for which it raises, is
\* tallied as failed without a send), whatever becomes of the other targets,
\* and sent + failed is the number of targets with ok true iff failed is 0; a
\* broadcast to more than 10 targets, or without text and media, sends nothing
C20_EveryTargetNotBlockedIsSent ==
    (targs.tool = "broadcast_to_chats" /\ targs.hasChannel) =>
        /\ tpc # "raised"
        /\ (TargetCount >= 1 /\ TargetCount <= 10 /\ (targs.hasText \/ targs.hasMedia)) =>
              /\ Len(tsend) = TargetCount
              /\ \A k \in 1..Len(tsend) :
                    /\ Sent(k) <=> (tdec[k].kind = "undefined" \/ tdec[k].allowed)
                    /\ (\A j \in 1..Len(tsend) : tsend[j] \in {"inflight", "blocked", "threw"}) =>
                          tdec[k] = TargetDecision(k)
              /\ TallyRight
        /\ (TargetCount > 10 \/ ~(targs.hasText \/ targs.hasMedia)) =>
              /\ tsend = <<>>
              /\ tpc = "returned" /\ ~tres.ok /\ ~tres.hasCounts

\* one target blocked, the other sent although the first was blocked
C20_Witness ==
    /\ targs.tool = "broadcast_to_chats"
    /\ tpc = "returned"
    /\ targs.chatIds = << <<"3">>, dv >>
    /\ Len(tdec) = 2
    /\ tdec[1].kind = "decision" /\ ~tdec[1].allowed
    /\ tdec[2].allowed
    /\ tsend = <<"blocked", "ok">>
    /\ tres.sent = 1 /\ tres.failed = 1 /\ ~tres.ok

\* the most messages the call in progress may return: min(limit, 200), and
\* 50 when the limit is omitted
ClaimedCap ==
    IF ~targs.limit.has THEN 50
    ELSE IF targs.limit.value < 200 THEN targs.limit.value ELSE 200

\* the last n elements of a sequence, in their order
LastOf(seq, n) == SubSeq(seq, Len(seq) - n + 1, Len(seq))

\* C21: for every numeric limit, read_chat_history returns at most
\* min(limit, 200) messages (50 when the limit is omitted), and the messages
\* readTranscriptMessages returns are at most limit many, namely the most
\* recent ones of the transcript in transcript order
C21_AtMostLimitMessages ==
    (targs.tool = "read_chat_history" /\ Len(tread) = 1 /\ tread[1].state = "done") =>
        /\ Len(tres.messages) <= ClaimedCap
        /\ Len(tread[1].messages) <= ClaimedCap
        /\ tres.messages = tread[1].messages
        /\ Len(tread[1].messages) <= Len(store[tread[1].session].transcript)
        /\ tread[1].messages =
              LastOf(store[tread[1].session].transcript, Len(tread[1].messages))

\* the entry lines of CHATS.md, in file order
EntryLines ==
    LET lines == split(chatsFile)
    IN  SelectSeq(lines, LAMBDA l : startsWith(l, <<"-", " ", "*", "*">>))

\* the chat ids seen by the calls so far, in the order of their first call
RECURSIVE FirstSeen(_)
FirstSeen(n) ==
    IF n = 0 THEN <<>>
    ELSE IF \E k \in 1..(n - 1) : chatsCalls[k].entry.chatId = chatsCalls[n].entry.chatId
    THEN FirstSeen(n - 1)
    ELSE Append(FirstSeen(n - 1), chatsCalls[n].entry.chatId)

\* the entry of the latest of the first n calls for a chat id
LatestEntry(chatId, n) ==
    LET ks == {k \in 1..n : chatsCalls[k].entry.chatId = chatId}
    IN  chatsCalls[CHOOSE k \in ks : \A j \in ks : j <= k].entry

\* the line that carries the chat id, title, type and alias of an entry
LineOf(entry) ==
    <<"-", " ", "*", "*">> \o entry.chatId \o <<"*", "*", " ", EmDash, " ">> \o entry.title
    \o <<" ", "(">>
    \o (CASE entry.type = "dm" -> <<"D", "M">>
           [] entry.type = "group" -> <<"g", "r", "o", "u", "p">>)
    \o <<")">>
    \o (IF entry.alias.has
        THEN <<" ", "|", " ", "a", "l", "i", "a", "s", ":", " ", "*", "*">>
             \o entry.alias.value \o <<"*", "*">>
        ELSE <<>>)

\* C22: updateChatRegistry is an idempotent upsert: after any sequence of
\* sequential calls CHATS.md holds exactly one entry line per distinct chat id
\* seen, in the order the chat ids were first seen, each carrying the title,
\* type and alias of the latest call for its chat id; and a call whose entry
\* is the one the previous call for that chat id carried performs no write
C22_IdempotentUpsert ==
    LET n == Len(chatsCalls)
        seen == FirstSeen(n)
    IN  n > 0 =>
          /\ EntryLines = [k \in 1..Len(seen) |-> LineOf(LatestEntry(seen[k], n))]
          /\ \A k \in 2..n :
                (/\ \E j \in 1..(k - 1) : chatsCalls[j].entry.chatId = chatsCalls[k].entry.chatId
                 /\ LatestEntry(chatsCalls[k].entry.chatId, k - 1) = chatsCalls[k].entry)
                    => ~chatsCalls[k].wrote

\* the latest updateMemorySection call, the sections it read and the sections
\* MEMORY.md parses to after it
LastMemoryCall == memoryCalls[Len(memoryCalls)]
SectionsBefore == parseSections(memoryRead)
SectionsAfter == parseSections(memoryFile)
Named(sec, name) == toLowerCase(sec.name) = toLowerCase(name)
Others(sections, name) == SelectSeq(sections, LAMBDA sec : ~Named(sec, name))

\* C23: after updateMemorySection(S, c, "replace") MEMORY.md parses to exactly
\* one section named S (compared without case) whose content is c without
\* its trailing white space, and every other section keeps its name, content
\* and relative order; a "delete" of an absent section writes nothing
C23_ReplaceSetsOneSection ==
    Len(memoryCalls) > 0 =>
        /\ LastMemoryCall.mode = "replace" =>
              /\ Cardinality({k \in 1..Len(SectionsAfter) :
                      Named(SectionsAfter[k], LastMemoryCall.section)}) = 1
              /\ \A k \in 1..Len(SectionsAfter) :
                    Named(SectionsAfter[k], LastMemoryCall.section) =>
                        SectionsAfter[k].content = trimEnd(LastMemoryCall.content)
              /\ Others(SectionsAfter, LastMemoryCall.section)
                    = Others(SectionsBefore, LastMemoryCall.section)
        /\ (/\ LastMemoryCall.mode = "delete"
            /\ \A k \in 1..Len(SectionsBefore) :
                  ~Named(SectionsBefore[k], LastMemoryCall.section)) =>
              /\ ~LastMemoryCall.wrote
              /\ memoryFile = memoryRead

\* the rearrangements of a list
Rearrangements(list) ==
    {[i \in 1..Len(list) |-> list[f[i]]] :
        f \in {g \in [1..Len(list) -> 1..Len(list)] :
                  \A i, j \in 1..Len(list) : g[i] = g[j] => i = j}}

\* the list with a rule added after its first k entries
WithRuleAt(list, k, rule) == SubSeq(list, 1, k) \o <<rule>> \o SubSeq(list, k + 1, Len(list))

\* what the evaluator gives for the request of the state under another allow
\* list and the same default: "allowed", "denied", or "raised"
OutcomeWith(list) ==
    LET res == evaluateCrossContextRoutePolicy(req,
                   [cfg EXCEPT !.crossContextRoutes =
                       [present |-> TRUE, hasAllow |-> TRUE, allow |-> list,
                        default |-> Routes.default]])
    IN  IF res.kind = "raised" THEN "raised"
        ELSE IF res.allowed THEN "allowed" ELSE "denied"

\* what the call of the state came to
OutcomeHere ==
    IF pc = "raised" THEN "raised"
    ELSE IF result.allowed THEN "allowed" ELSE "denied"

\* C24: for a fixed request and default action the allowed flag depends only
\* on the set of allow rules: every permutation of the allow list yields the
\* same allowed value, and adding a rule anywhere in the list never turns an
\* allowed request into one that is not allowed
C24_AllowedIndependentOfOrder ==
    (pc \in {"done", "raised"} /\ Routes.present) =>
        /\ \A p \in Rearrangements(AllowList) : OutcomeWith(p) = OutcomeHere
        /\ OutcomeHere = "allowed" =>
              \A rule \in PolicyRules : \A k \in 0..Len(AllowList) :
                  OutcomeWith(WithRuleAt(AllowList, k, rule)) = "allowed"

\* C25: in every run of runMessageRoutes the sender is invoked for exactly the
\* counted rules, which on return are the rules that pass every test, each
\* invocation carrying the rule's channel ("telegram" when the rule names
\* none), the alias-resolved to as target, a non-empty trimmed text and a
\* target that is not the source chat id; the number of invocations is the
\* counter at every moment and, on return, the returned count
C25_OneSendPerCountedRule ==
    /\ attempted = Cardinality(Dispatched)
    /\ rpc = "returned" =>
          /\ returned = Cardinality(Dispatched)
          /\ Dispatched = Firing
    /\ \A i \in 1..Len(sends) :
          /\ i \in Dispatched =>
                /\ outbound[i].action = "send"
                /\ outbound[i].channel =
                      (IF RouteRule(i).hasChannel THEN RouteRule(i).channel ELSE telegram)
                /\ outbound[i].target = resolveChatAlias(cfg, RouteRule(i).to)
                /\ outbound[i].target # ctx.chatId
                /\ outbound[i].message # <<>>
                /\ outbound[i].message = trim(outbound[i].message)
          /\ i \notin Dispatched => outbound[i] = NoParams

\* a rule without channel fires on a message of channel "Telegram" and is
\* sent on "telegram" to the chat its alias names; the disabled rule is not
C25_Witness ==
    /\ rpc = "returned"
    /\ RuleCount = 2
    /\ RouteRule(1) = Rule(<<"T", "e", "l", "e", "g", "r", "a", "m">>, dv)
    /\ RouteRule(2).enabledFalse
    /\ ctx.channel = <<"T", "e", "l", "e", "g", "r", "a", "m">>
    /\ ctx.chatId = <<"2">>
    /\ sends = <<"ok", "none">>
    /\ outbound[1].channel = telegram
    /\ outbound[1].target = <<"1">>
    /\ returned = 1

ChatTitleToken == <<"{", "c", "h", "a", "t", "T", "i", "t", "l", "e", "}">>

\* C26: template substitution is single-pass: the rendered template is the
\* template with each token replaced by its value, a value being inserted as
\* it is and never expanded itself, so the template "{chatTitle}" renders to
\* the chat title whatever the title holds
C26_SubstitutionIsSinglePass ==
    call.fn = "template" =>
        /\ call.sres = Substituted(call.pattern, 1)
        /\ call.pattern = ChatTitleToken => call.sres = ctx.chatTitle

\* the chat id and the channel handed to findSessionEntryForChat for source
\* chat k of the history tool call in progress
RequestedChat(k) ==
    IF targs.tool = "read_chat_history" THEN targs.chatId
    ELSE resolveChatAlias(cfg, targs.chatIds[k])
RequestedChannel == targs.channel

\* the sessions of exactly the requested chat on the requested channel that
\* are not topic sub-sessions
ExactSessions(k) ==
    {j \in 1..Len(store) :
        /\ store[j].chat = trim(RequestedChat(k))
        /\ includes(store[j].key, <<":">> \o RequestedChannel \o <<":">>)
        /\ ~includes(store[j].key, topicMark)}

\* C27: findSessionEntryForChat returns only a session of exactly the
\* requested chat id on the requested channel, never that of a chat whose id
\* merely starts with the requested id; it is the most recently updated one
\* that is not a topic sub-session, and null when there is no such session
C27_SessionOfExactlyTheRequestedChat ==
    targs.tool \in {"read_chat_history", "digest_chat"} =>
        \A k \in 1..Len(tread) :
            /\ tread[k].session # 0 =>
                  /\ tread[k].session \in ExactSessions(k)
                  /\ \A j \in ExactSessions(k) :
                        store[j].updatedAt <= store[tread[k].session].updatedAt
            /\ tread[k].state = "nosession" => ExactSessions(k) = {}

====
